---------------------------- MODULE Spec2Model ----------------------------
(***************************************************************************)
(* Model of the content-risk-control decision pipeline: the detectors, the *)
(* rule engine, the single-item pipeline (doContentCheck), the result      *)
(* cache, the concurrent batch coordinator, the remote-signal fallback     *)
(* latch and the sensitive-word store.                                     *)
(*                                                                         *)
(* Abstractions.  A text is represented by which of the code's patterns    *)
(* and keyword lists match it (the record fields of a Text below); scores  *)
(* are float32 in the code and whole numbers here (every score the code    *)
(* produces on the modelled inputs is a whole number); a remote risk_score *)
(* in [0,1] is given in tenths.                                            *)
(***************************************************************************)
EXTENDS Integers, Sequences, FiniteSets, TLC

(***************************************************************************)
(* model.ResultType and model.RiskType (iota enumerations).                *)
(***************************************************************************)
ResultTypePass == 0
ResultTypeReview == 1
ResultTypeReject == 2
ResultTypeWarning == 3

RiskTypeUnknown == 0
RiskTypeSensitiveWord == 1
RiskTypeSpam == 2
RiskTypeHarassment == 3
RiskTypeHateSpeech == 4
RiskTypeViolence == 5
RiskTypeAdult == 6
RiskTypeContextViolation == 7
RiskTypeSuspiciousBehavior == 8

\* model.NewRiskItem (Details are never read by the pipeline and are left out)
NewRiskItem(riskType, score, description) ==
    [Type |-> riskType, Score |-> score, Description |-> description]

(***************************************************************************)
(* Generic helpers.                                                        *)
(***************************************************************************)
RECURSIVE Perms(_)
\* all orders in which the elements of a finite set can be enumerated
Perms(S) ==
    IF S = {} THEN {<<>>}
    ELSE UNION {{<<x>> \o p : p \in Perms(S \ {x})} : x \in S}

RECURSIVE SetToSeq(_)
\* the elements of S in some fixed order
SetToSeq(S) ==
    IF S = {} THEN <<>>
    ELSE LET x == CHOOSE y \in S : TRUE IN <<x>> \o SetToSeq(S \ {x})

RECURSIVE Concat(_)
\* concatenation of a sequence of sequences
Concat(ss) == IF ss = <<>> THEN <<>> ELSE Head(ss) \o Concat(Tail(ss))

\* sequences over S of length lo..hi
SeqsBetween(S, lo, hi) == UNION {[1..n -> S] : n \in lo..hi}


(***************************************************************************)
(* Texts.  Category names are the keys of classifyText's keyword table.    *)
(***************************************************************************)
Categories == {"insult", "command", "threat", "spam"}
NoKw == [c \in Categories |-> 0]

\* the universe of sensitive words (lines of the word files)
WordUniverse == {"badword", "slur"}

\* ""
TextEmpty ==
    [id |-> "", len |-> 0, urlCount |-> 0, pats |-> {}, kw |-> NoKw, sub |-> {}]
\* "hello world"
TextClean ==
    [id |-> "hello world", len |-> 11, urlCount |-> 0, pats |-> {}, kw |-> NoKw,
     sub |-> {}]
\* "call 555-1234 $99": a phone number and a price
TextPromo ==
    [id |-> "call 555-1234 $99", len |-> 17, urlCount |-> 0,
     pats |-> {"phonePattern", "moneyPattern"}, kw |-> NoKw, sub |-> {}]
\* "你真是个废物": an insult ("废物")
TextInsult ==
    [id |-> "ni zhen shi ge feiwu", len |-> 18, urlCount |-> 0,
     pats |-> {"insultPattern", "harmfulWords"},
     kw |-> [NoKw EXCEPT !["insult"] = 1], sub |-> {}]
\* "这是霸凌": contains the harassment keyword "霸凌" and nothing else
TextBully ==
    [id |-> "zhe shi baling", len |-> 12, urlCount |-> 0,
     pats |-> {"harassmentKeywords"}, kw |-> NoKw, sub |-> {}]
\* "get badword": contains the sensitive word "badword" and nothing else
TextWord ==
    [id |-> "get badword", len |-> 11, urlCount |-> 0, pats |-> {}, kw |-> NoKw,
     sub |-> {"badword"}]
\* "别发了": a rejection by the other party (used as a context item)
TextStop ==
    [id |-> "bie fa le", len |-> 9, urlCount |-> 0,
     pats |-> {"semRejection", "semNegative", "rejectionWords"}, kw |-> NoKw,
     sub |-> {}]

Users == {"u1", "u2"}
Scenes == {"post"}

\* model.CheckContext
CheckContext(content, userID, scene, contextItems) ==
    [Content |-> content, UserID |-> userID, Scene |-> scene,
     ContextItems |-> contextItems]

\* a detector's return value: (risks, error)
Out(risks) == [risks |-> risks, err |-> FALSE]
Fail == [risks |-> <<>>, err |-> TRUE]

(***************************************************************************)
(* SensitiveWords.ContainsWord: ranges over the word map (in an order Go   *)
(* leaves unspecified) and returns the first word that is a substring of   *)
(* the content.  The set of possible (found, word) results.                *)
(***************************************************************************)
ContainsWord(wordSet, content) ==
    IF content.len = 0 THEN {[found |-> FALSE, word |-> ""]}
    ELSE LET hits == wordSet \cap content.sub
         IN  IF hits = {} THEN {[found |-> FALSE, word |-> ""]}
             ELSE {[found |-> TRUE, word |-> w] : w \in hits}

\* SensitiveWordDetector.Detect, given ContainsWord's result
SensitiveWordDetect(ctx, cw) ==
    IF ctx.Content.len = 0 THEN Out(<<>>)
    ELSE IF ~cw.found THEN Out(<<>>)
    ELSE Out(<<NewRiskItem(RiskTypeSensitiveWord, 80,
                          "sensitive word: " \o cw.word)>>)

(***************************************************************************)
(* SpamDetector.Detect: five independent checks, each appending its own    *)
(* Spam item.                                                              *)
(***************************************************************************)
SpamDetect(ctx) ==
    LET c == ctx.Content
        url == IF c.urlCount > 0 /\ 100 * c.urlCount > c.len
               THEN <<NewRiskItem(RiskTypeSpam, 60, "too many URLs")>> ELSE <<>>
        phone == IF "phonePattern" \in c.pats
                 THEN <<NewRiskItem(RiskTypeSpam, 50, "phone number")>> ELSE <<>>
        money == IF "moneyPattern" \in c.pats
                 THEN <<NewRiskItem(RiskTypeSpam, 40, "money")>> ELSE <<>>
        cn == IF "spamKeywordsLower" \in c.pats
              THEN <<NewRiskItem(RiskTypeSpam, 65, "spam keyword")>> ELSE <<>>
        en == IF "spamKeywordsRegexp" \in c.pats
              THEN <<NewRiskItem(RiskTypeSpam, 55, "spam keyword")>> ELSE <<>>
    IN  IF c.len = 0 THEN Out(<<>>)
        ELSE Out(url \o phone \o money \o cn \o en)

(***************************************************************************)
(* HarassmentDetector.                                                     *)
(***************************************************************************)
repeatMessageThreshold == 3

\* the indices of a sequence whose element satisfies a test
Count(seq, Test(_)) == Cardinality({i \in DOMAIN seq : Test(seq[i])})

countSameUserRepeatMessages(ctx) ==
    IF Len(ctx.ContextItems) = 0 THEN 0
    ELSE LET Same(item) == item.UserID = ctx.UserID
         IN  Count(ctx.ContextItems, Same) + 1

isTargetingUser(ctx) ==
    IF Len(ctx.ContextItems) < 2 THEN FALSE
    ELSE \E u \in {ctx.ContextItems[i].UserID : i \in DOMAIN ctx.ContextItems} :
            /\ u # ctx.UserID
            /\ LET ByU(item) == item.UserID = u
               IN  Count(ctx.ContextItems, ByU) >= 2

HarassmentDetect(ctx) ==
    LET c == ctx.Content
        kwd == IF "harassmentKeywords" \in c.pats
               THEN <<NewRiskItem(RiskTypeHarassment, 70, "harassment keyword")>>
               ELSE <<>>
        rep == IF Len(ctx.ContextItems) > 0
                  /\ countSameUserRepeatMessages(ctx) >= repeatMessageThreshold
               THEN <<NewRiskItem(RiskTypeHarassment, 65, "repeated messages")>>
               ELSE <<>>
        tgt == IF Len(ctx.ContextItems) > 0 /\ isTargetingUser(ctx)
               THEN <<NewRiskItem(RiskTypeHarassment, 60, "targeting a user")>>
               ELSE <<>>
    IN  IF c.len = 0 THEN Out(<<>>) ELSE Out(kwd \o rep \o tgt)

(***************************************************************************)
(* SemanticDetector.                                                       *)
(***************************************************************************)
\* the threshold NewContentCheckService passes to NewSemanticDetector (0.3),
\* in tenths
SemanticThreshold == 3

\* SemanticDetector.getCategoryRiskType
getCategoryRiskType(category) ==
    CASE category = "insult" -> RiskTypeHarassment
      [] category = "command" -> RiskTypeHarassment
      [] category = "threat" -> RiskTypeHarassment
      [] category = "spam" -> RiskTypeSpam
      [] OTHER -> RiskTypeUnknown

\* patternBasedDetection: [hit, risks]
patternBasedDetection(content) ==
    IF "insultPattern" \in content.pats
    THEN [hit |-> TRUE,
          risks |-> <<NewRiskItem(RiskTypeHarassment, 85, "direct insult")>>]
    ELSE IF "threatPattern" \in content.pats
    THEN [hit |-> TRUE,
          risks |-> <<NewRiskItem(RiskTypeHarassment, 75, "potential threat")>>]
    ELSE IF /\ "commandPattern" \in content.pats
            /\ "niMa" \in content.pats
            /\ "familyPattern" \notin content.pats
            /\ "greetingPattern" \notin content.pats
    THEN [hit |-> TRUE,
          risks |-> <<NewRiskItem(RiskTypeHarassment, 80, "negative about family")>>]
    ELSE [hit |-> FALSE, risks |-> <<>>]

\* familyTermAnalysis: [hit, risks]
familyTermAnalysis(content, contextItems) ==
    IF "familyTerm" \in content.pats
    THEN IF \/ "familyPattern" \in content.pats
            \/ "respectfulPattern" \in content.pats
            \/ "greetingPattern" \in content.pats
         THEN [hit |-> FALSE, risks |-> <<>>]
         ELSE IF \E i \in DOMAIN contextItems :
                    "semRejection" \in contextItems[i].Content.pats
         THEN [hit |-> TRUE,
               risks |-> <<NewRiskItem(RiskTypeHarassment, 75,
                                       "family term after rejection")>>]
         ELSE [hit |-> FALSE, risks |-> <<>>]
    ELSE [hit |-> FALSE, risks |-> <<>>]

(***************************************************************************)
(* classifyText ranges over the category table (a Go map: the order is     *)
(* unspecified), adds 0.2 per matched keyword and keeps the first category *)
(* whose score is strictly above the best so far; below 0.3 the text is    *)
(* "normal".  The set of results it can return: any category whose score   *)
(* is the (positive) maximum.  Confidence in tenths.                       *)
(***************************************************************************)
classifyText(text) ==
    LET score(c) == 2 * text.kw[c]
        best == CHOOSE m \in {score(c) : c \in Categories} :
                    \A c \in Categories : score(c) <= m
    IN  IF best < 3
        THEN {[category |-> "normal", confidence |-> 0, description |-> ""]}
        ELSE {[category |-> c, confidence |-> best,
               description |-> "classified " \o c] :
                 c \in {d \in Categories : score(d) = best}}

RECURSIVE negativeLoop(_, _, _)
\* the "negative response, then repeat offence" loop of
\* analyzeConversationPattern from index i on: the possible
\* [violation, negativeResponses] it ends with (it breaks at a violation)
negativeLoop(ctx, i, neg) ==
    LET items == ctx.ContextItems
    IN  IF i > Len(items) THEN {[violation |-> FALSE, neg |-> neg]}
        ELSE IF items[i].UserID # ctx.UserID
                /\ "semNegative" \in items[i].Content.pats
        THEN IF i + 1 <= Len(items) /\ items[i + 1].UserID = ctx.UserID
             THEN UNION {IF cat.category \in {"command", "insult"}
                         THEN {[violation |-> TRUE, neg |-> neg + 1]}
                         ELSE negativeLoop(ctx, i + 1, neg + 1) :
                            cat \in classifyText(items[i + 1].Content)}
             ELSE negativeLoop(ctx, i + 1, neg + 1)
        ELSE negativeLoop(ctx, i + 1, neg)

\* analyzeConversationPattern: the possible sequences of appended risks
analyzeConversationPattern(ctx) ==
    LET items == ctx.ContextItems
        Mine(item) == item.UserID = ctx.UserID
        nMine == Count(items, Mine)
        others == {items[i].UserID : i \in DOMAIN items} \ {ctx.UserID}
        replies(o) == LET ByO(item) == item.UserID = o IN Count(items, ByO)
        \* userMessageCount[o]: one per (own item, item of o) pair
        msgCount(o) == nMine * replies(o)
        imbalance ==
            IF \E o \in others :
                  /\ msgCount(o) > 0
                  /\ msgCount(o) > replies(o) * 2
                  /\ msgCount(o) > 2
            THEN <<NewRiskItem(RiskTypeHarassment, 60, "unbalanced conversation")>>
            ELSE <<>>
    IN  IF Len(items) < 2 THEN {<<>>}
        ELSE {imbalance
              \o (IF r.violation
                  THEN <<NewRiskItem(RiskTypeContextViolation, 70,
                                     "continued after displeasure")>>
                  ELSE <<>>)
              \o (IF r.neg >= 2
                  THEN <<NewRiskItem(RiskTypeSuspiciousBehavior, 65,
                                     "continued after negative responses")>>
                  ELSE <<>>) : r \in negativeLoop(ctx, 1, 0)}

\* SemanticDetector.Detect: the set of possible return values
SemanticDetect(ctx) ==
    LET content == ctx.Content
        p == patternBasedDetection(content)
        f == familyTermAnalysis(content, ctx.ContextItems)
    IN  IF content.len = 0 THEN {Out(<<>>)}
        ELSE IF p.hit THEN {Out(p.risks)}
        ELSE IF f.hit THEN {Out(f.risks)}
        ELSE {Out((IF cat.category # "normal" /\ cat.confidence > SemanticThreshold
                   THEN <<NewRiskItem(getCategoryRiskType(cat.category),
                                      cat.confidence * 10, cat.description)>>
                   ELSE <<>>)
                  \o conv) :
                cat \in classifyText(content),
                conv \in (IF Len(ctx.ContextItems) > 0
                          THEN analyzeConversationPattern(ctx) ELSE {<<>>})}

(***************************************************************************)
(* Remote-signal detectors.  NLPDetector (cloud) and SemanticNLPDetector   *)
(* (local LLM) share the text of Detect, fallbackDetect, containsRejection, *)
(* hasContextualRisk and getIntentRiskType; AIDetector is separate.        *)
(***************************************************************************)
\* cfg.NLPService.Threshold (0.6), in tenths
NLPThreshold == 6

\* the outcomes of a live analysis call (analyzeContent): a failure
\* (transport error, bad status, undecodable body) or a decoded result,
\* risk_score in tenths
AnalysisFailed == [ok |-> FALSE]
AnalysisBenign ==
    [ok |-> TRUE, IsToxic |-> FALSE, Intent |-> "neutral", Risk |-> 1,
     Explanation |-> "benign"]
AnalysisToxic ==
    [ok |-> TRUE, IsToxic |-> TRUE, Intent |-> "harmful", Risk |-> 9,
     Explanation |-> "toxic"]
AnalysisOutcomes == {AnalysisFailed, AnalysisBenign, AnalysisToxic}

\* containsRejection
containsRejection(text) == "rejectionWords" \in text.pats

\* hasContextualRisk
hasContextualRisk(contextItems) ==
    \E i \in DOMAIN contextItems : containsRejection(contextItems[i].Content)

\* getIntentRiskType
getIntentRiskType(intent) ==
    IF intent = "harmful" THEN RiskTypeHarassment ELSE RiskTypeUnknown

\* getIntentDescription
getIntentDescription(intent) == IF intent = "harmful" THEN "harmful" ELSE intent

\* fallbackDetect: the local heuristics; no network call
fallbackDetect(ctx) ==
    LET c == ctx.Content
        harmful == IF "harmfulWords" \in c.pats
                   THEN <<NewRiskItem(RiskTypeHarassment, 80, "harmful word")>>
                   ELSE <<>>
        threat == IF "threatPatterns" \in c.pats
                  THEN <<NewRiskItem(RiskTypeHarassment, 75, "potential threat")>>
                  ELSE <<>>
        hasRejection ==
            \E i \in DOMAIN ctx.ContextItems :
                /\ ctx.ContextItems[i].UserID # ctx.UserID
                /\ containsRejection(ctx.ContextItems[i].Content)
        rejected == IF Len(ctx.ContextItems) > 0 /\ hasRejection
                    THEN <<NewRiskItem(RiskTypeContextViolation, 70,
                                       "continued after rejection")>>
                    ELSE <<>>
    IN  Out(harmful \o threat \o rejected)

\* the part of Detect after a successful analyzeContent: the result's risks
analysisRisks(ctx, result) ==
    LET toxic == IF result.IsToxic /\ result.Risk > NLPThreshold
                 THEN <<NewRiskItem(RiskTypeHarassment, result.Risk * 10,
                                    result.Explanation)>>
                 ELSE <<>>
        intent == IF /\ result.Intent # ""
                     /\ result.Intent # "neutral"
                     /\ result.Risk > NLPThreshold
                  THEN <<NewRiskItem(getIntentRiskType(result.Intent),
                                     result.Risk * 8,
                                     "intent " \o getIntentDescription(result.Intent))>>
                  ELSE <<>>
        context == IF Len(ctx.ContextItems) > 0
                      /\ hasContextualRisk(ctx.ContextItems)
                   THEN <<NewRiskItem(RiskTypeContextViolation, result.Risk * 9,
                                      "contextual risk")>>
                   ELSE <<>>
    IN  Out(toxic \o intent \o context)

(***************************************************************************)
(* NLPDetector.Detect / SemanticNLPDetector.Detect as one step: given the  *)
(* flag it reads on entry and the outcome of the live call (made only when *)
(* the flag is false), the value returned, the flag afterwards and whether *)
(* the network was used.                                                   *)
(***************************************************************************)
LatchDetect(ctx, fallbackMode, analysis) ==
    IF fallbackMode
    THEN [out |-> fallbackDetect(ctx), fallbackMode |-> fallbackMode,
          network |-> FALSE]
    ELSE IF ~analysis.ok
    THEN [out |-> fallbackDetect(ctx), fallbackMode |-> TRUE, network |-> TRUE]
    ELSE [out |-> analysisRisks(ctx, analysis), fallbackMode |-> fallbackMode,
          network |-> TRUE]

\* AIDetector.mapRiskType
mapRiskType(aiRiskType) ==
    CASE aiRiskType = "sensitive_word" -> RiskTypeSensitiveWord
      [] aiRiskType = "spam" -> RiskTypeSpam
      [] aiRiskType = "harassment" -> RiskTypeHarassment
      [] aiRiskType = "hate_speech" -> RiskTypeHateSpeech
      [] aiRiskType = "violence" -> RiskTypeViolence
      [] aiRiskType = "adult" -> RiskTypeAdult
      [] aiRiskType = "context_violation" -> RiskTypeContextViolation
      [] aiRiskType = "suspicious_behavior" -> RiskTypeSuspiciousBehavior
      [] OTHER -> RiskTypeUnknown

\* the outcomes of the AI service call: a transport error, a non-200
\* status, an undecodable body, or a decoded AIResponseBody
AITransportError == [kind |-> "transport"]
AIBadStatus == [kind |-> "status"]
AINotSuccess == [kind |-> "body", Success |-> FALSE, Risks |-> <<>>]
AINoRisk == [kind |-> "body", Success |-> TRUE, Risks |-> <<>>]
AISpam ==
    [kind |-> "body", Success |-> TRUE,
     Risks |-> <<[Type |-> "spam", Score |-> 90, Description |-> "ai spam"]>>]
AIResponses == {AITransportError, AIBadStatus, AINotSuccess, AINoRisk, AISpam}

\* AIDetector.Detect, given the outcome of its HTTP call: it keeps no
\* fallback flag; a failed call is returned as an error
AIDetect(ctx, resp) ==
    IF ctx.Content.len = 0 THEN Out(<<>>)
    ELSE IF resp.kind # "body" THEN Fail
    ELSE IF ~resp.Success THEN Fail
    ELSE Out([i \in DOMAIN resp.Risks |->
                 [Type |-> mapRiskType(resp.Risks[i].Type),
                  Score |-> resp.Risks[i].Score,
                  Description |-> resp.Risks[i].Description]])

(***************************************************************************)
(* RuleEngine.  A RuleSet is [Rules, Actions, Categories]; Rules maps rule *)
(* ids to rules.                                                           *)
(***************************************************************************)
\* getActionType
getActionType(action) ==
    CASE action = "block" -> ResultTypeReject
      [] action = "review" -> ResultTypeReview
      [] action = "mark" -> ResultTypeWarning
      [] OTHER -> ResultTypePass

\* getRiskTypeFromCategory
getRiskTypeFromCategory(category) ==
    CASE category = "sensitive" -> RiskTypeSensitiveWord
      [] category = "spam" -> RiskTypeSpam
      [] category = "harassment" -> RiskTypeHarassment
      [] category = "hate_speech" -> RiskTypeHateSpeech
      [] category = "violence" -> RiskTypeViolence
      [] category = "adult" -> RiskTypeAdult
      [] OTHER -> RiskTypeUnknown

\* RuleEngine.generateSuggestion
ruleSuggestion(rule) == "violates rule " \o rule.Name

NoMatch == [matched |-> FALSE, riskItem |-> <<>>]

\* a faulty variant of evaluateRule: the context rule matches when there
\* are context items and no context violation was found yet
evaluateRuleContext(rule, ctx, existingRiskTypes) ==
    IF /\ rule.ID = "context_analysis"
       /\ Len(ctx.ContextItems) > 0
       /\ RiskTypeContextViolation \notin existingRiskTypes
    THEN [matched |-> TRUE,
          riskItem |-> <<NewRiskItem(RiskTypeContextViolation, rule.Score,
                                     rule.Name)>>]
    ELSE NoMatch

\* a faulty variant of evaluateRule: every rule matches
evaluateRuleMatching(rule, ctx, existingRiskTypes) ==
    [matched |-> TRUE, riskItem |-> <<>>]

(***************************************************************************)
(* evaluateRule: the switch on the rule id returns "not matched" when the  *)
(* rule's risk type was already found by a detector (or its precondition   *)
(* fails), and every path that leaves the switch reaches the final         *)
(* `return false, nil`.                                                    *)
(***************************************************************************)
evaluateRule(rule, ctx, existingRiskTypes) ==
    CASE rule.ID = "sensitive_words" ->
            IF "category" \notin DOMAIN rule.Config THEN NoMatch
            ELSE IF getRiskTypeFromCategory(rule.Config.category)
                        \in existingRiskTypes
            THEN NoMatch
            ELSE NoMatch
      [] rule.ID = "spam_detection" ->
            IF RiskTypeSpam \in existingRiskTypes THEN NoMatch ELSE NoMatch
      [] rule.ID = "context_analysis" ->
            IF Len(ctx.ContextItems) = 0 THEN NoMatch
            ELSE IF RiskTypeContextViolation \in existingRiskTypes THEN NoMatch
            ELSE NoMatch
      [] rule.ID = "user_reputation" ->
            IF RiskTypeSuspiciousBehavior \in existingRiskTypes THEN NoMatch
            ELSE NoMatch
      [] OTHER -> NoMatch

Swap(seq, i, j) ==
    [k \in DOMAIN seq |-> IF k = i THEN seq[j] ELSE IF k = j THEN seq[i] ELSE seq[k]]

RECURSIVE sortInner(_, _, _)
\* the inner loop of sortRulesByPriority (j from i+1 to the end)
sortInner(rules, i, j) ==
    IF j > Len(rules) THEN rules
    ELSE sortInner(IF rules[i].Priority < rules[j].Priority
                   THEN Swap(rules, i, j) ELSE rules, i, j + 1)

RECURSIVE sortOuter(_, _)
\* the outer loop of sortRulesByPriority (i up to the last but one)
sortOuter(rules, i) ==
    IF i >= Len(rules) THEN rules
    ELSE sortOuter(sortInner(rules, i, i + 1), i + 1)

\* sortRulesByPriority: the rules in the order the map yields them
\* (mapOrder, a permutation of the rule ids), then sorted by descending
\* priority with the exchange sort of the code
sortRulesByPriority(ruleSet, mapOrder) ==
    sortOuter([k \in DOMAIN mapOrder |-> ruleSet.Rules[mapOrder[k]]], 1)

\* a faulty variant of ruleLoop: the result is explicit whether or not the
\* highest score is above 0
RECURSIVE ruleLoopAlwaysExplicit(_, _, _, _)
ruleLoopAlwaysExplicit(sortedRules, ms, k, acc) ==
    IF k > Len(sortedRules)
    THEN [Result |-> acc.highestScoreResult,
          Score |-> acc.highestScore,
          Risks |-> acc.Risks,
          Suggestion |-> "",
          HasExplicitResult |-> TRUE]
    ELSE LET rule == sortedRules[k]
             m == ms[k]
             actionType == getActionType(rule.Action)
             score == rule.Score
             risks == acc.Risks \o m.riskItem
             next == IF score > acc.highestScore
                     THEN [Risks |-> risks, highestScore |-> score,
                           highestScoreResult |-> actionType]
                     ELSE [acc EXCEPT !.Risks = risks]
         IN  IF ~rule.Enabled
             THEN ruleLoopAlwaysExplicit(sortedRules, ms, k + 1, acc)
             ELSE IF ~m.matched
             THEN ruleLoopAlwaysExplicit(sortedRules, ms, k + 1, acc)
             ELSE IF actionType = ResultTypeReject
             THEN [Result |-> ResultTypeReject,
                   Score |-> score,
                   Risks |-> risks,
                   Suggestion |-> ruleSuggestion(rule),
                   HasExplicitResult |-> TRUE]
             ELSE ruleLoopAlwaysExplicit(sortedRules, ms, k + 1, next)

RECURSIVE ruleLoop(_, _, _, _)
\* the rule loop of Evaluate from position k on and the lines after it; ms[k]
\* is what evaluateRule returned for sortedRules[k], acc holds result.Risks,
\* highestScore and highestScoreResult
ruleLoop(sortedRules, ms, k, acc) ==
    IF k > Len(sortedRules)
    THEN [Result |-> IF acc.highestScore > 0 THEN acc.highestScoreResult
                     ELSE ResultTypePass,
          Score |-> acc.highestScore,
          Risks |-> acc.Risks,
          Suggestion |-> "",
          HasExplicitResult |-> acc.highestScore > 0]
    ELSE LET rule == sortedRules[k]
             m == ms[k]
             actionType == getActionType(rule.Action)
             score == rule.Score
             risks == acc.Risks \o m.riskItem
             next == IF score > acc.highestScore
                     THEN [Risks |-> risks, highestScore |-> score,
                           highestScoreResult |-> actionType]
                     ELSE [acc EXCEPT !.Risks = risks]
         IN  IF ~rule.Enabled
             THEN ruleLoop(sortedRules, ms, k + 1, acc)
             ELSE IF ~m.matched
             THEN ruleLoop(sortedRules, ms, k + 1, acc)
             ELSE IF actionType = ResultTypeReject
             THEN [Result |-> ResultTypeReject,
                   Score |-> score,
                   Risks |-> risks,
                   Suggestion |-> ruleSuggestion(rule),
                   HasExplicitResult |-> TRUE]
             ELSE ruleLoop(sortedRules, ms, k + 1, next)

\* the rule loop of Evaluate with evaluateRule called on every rule it visits
evaluateLoop(sortedRules, k, ctx, existingRiskTypes, acc) ==
    ruleLoop(sortedRules,
             [i \in DOMAIN sortedRules |->
                 evaluateRule(sortedRules[i], ctx, existingRiskTypes)],
             k, acc)

\* the sequences sortRulesByPriority can produce, one per order in which the
\* range over the rule map can yield the rules
SortedRules(ruleSet) ==
    {sortRulesByPriority(ruleSet, mapOrder) : mapOrder \in Perms(DOMAIN ruleSet.Rules)}

\* RuleEngine.Evaluate on an engine [ruleSet, initialized], sortedRules being
\* what sortRulesByPriority returned: [err, res]
Evaluate(engine, sortedRules, ctx, existingRisks) ==
    IF ~engine.initialized THEN [err |-> TRUE]
    ELSE [err |-> FALSE,
          res |-> evaluateLoop(
                    sortedRules, 1, ctx,
                    {existingRisks[i].Type : i \in DOMAIN existingRisks},
                    [Risks |-> <<>>, highestScore |-> 0,
                     highestScoreResult |-> ResultTypePass])]

(***************************************************************************)
(* The single-item pipeline.                                               *)
(***************************************************************************)
\* cfg.ContentCheck.RiskScoreThreshold
RiskScoreThreshold == 70

\* model.CheckResult; Extra is a set of <<key, value>> pairs
NoRequestID == <<"", 0, "">>
CheckResult(result, riskScore, risks, suggestion, extra) ==
    [Result |-> result, RiskScore |-> riskScore, Risks |-> risks,
     RequestID |-> NoRequestID, Suggestion |-> suggestion, CostTime |-> 0,
     Extra |-> extra]

\* ContentCheckService.generateSuggestion
generateSuggestion(result, risks) ==
    CASE result = ResultTypeReject ->
            IF Len(risks) > 0 THEN "rejected: " \o risks[1].Description
            ELSE "rejected"
      [] result = ResultTypeReview -> "needs human review"
      [] result = ResultTypeWarning -> "risky, consider revising"
      [] OTHER -> "passed"

\* the first index of allRisks holding an item of the given type, or 0
FirstOfType(allRisks, type) ==
    IF \E i \in DOMAIN allRisks : allRisks[i].Type = type
    THEN CHOOSE i \in DOMAIN allRisks :
            /\ allRisks[i].Type = type
            /\ \A j \in 1..(i - 1) : allRisks[j].Type # type
    ELSE 0

RECURSIVE mergeLoopOverwriting(_, _, _)
\* a faulty variant of mergeLoop: an engine item of equal score overwrites
\* the item of its type too
mergeLoopOverwriting(engineRisks, k, acc) ==
    IF k > Len(engineRisks) THEN acc
    ELSE LET risk == engineRisks[k]
             at == FirstOfType(acc.allRisks, risk.Type)
             merged ==
                 IF at = 0 THEN Append(acc.allRisks, risk)
                 ELSE IF risk.Score >= acc.allRisks[at].Score
                 THEN [acc.allRisks EXCEPT ![at].Score = risk.Score,
                                           ![at].Description = risk.Description]
                 ELSE acc.allRisks
         IN  mergeLoopOverwriting(engineRisks, k + 1,
                       [acc EXCEPT !.allRisks = merged,
                                   !.maxScore = IF risk.Score > acc.maxScore
                                                THEN risk.Score ELSE acc.maxScore])

RECURSIVE mergeLoop(_, _, _)
\* step 2 of doContentCheck, the merge of the engine's risks: an item whose
\* type is already in the list raises that item's score (and replaces its
\* description) when higher; otherwise it is appended
mergeLoop(engineRisks, k, acc) ==
    IF k > Len(engineRisks) THEN acc
    ELSE LET risk == engineRisks[k]
             at == FirstOfType(acc.allRisks, risk.Type)
             merged ==
                 IF at = 0 THEN Append(acc.allRisks, risk)
                 ELSE IF risk.Score > acc.allRisks[at].Score
                 THEN [acc.allRisks EXCEPT ![at].Score = risk.Score,
                                           ![at].Description = risk.Description]
                 ELSE acc.allRisks
         IN  mergeLoop(engineRisks, k + 1,
                       [acc EXCEPT !.allRisks = merged,
                                   !.maxScore = IF risk.Score > acc.maxScore
                                                THEN risk.Score ELSE acc.maxScore])

\* a faulty variant of detectorLoop: the loop ends at the first detector that
\* returned an error
RECURSIVE detectorLoopAborting(_, _, _, _)
detectorLoopAborting(order, k, outs, acc) ==
    IF k > Len(order) THEN acc
    ELSE LET o == outs[order[k]]
             sum == LET RECURSIVE S(_)
                        S(i) == IF i = 0 THEN 0 ELSE S(i - 1) + o.risks[i].Score
                    IN  S(Len(o.risks))
             top == LET RECURSIVE M(_, _)
                        M(i, m) == IF i > Len(o.risks) THEN m
                                   ELSE M(i + 1, IF o.risks[i].Score > m
                                                 THEN o.risks[i].Score ELSE m)
                    IN  M(1, acc.maxScore)
         IN  IF o.err THEN acc
             ELSE detectorLoopAborting(order, k + 1, outs,
                               [allRisks |-> acc.allRisks \o o.risks,
                                totalScore |-> acc.totalScore + sum,
                                maxScore |-> top])

RECURSIVE detectorLoopMerging(_, _, _, _)
\* a faulty variant of detectorLoop: the detectors' items are merged by type
\* as the engine's are, instead of being appended
detectorLoopMerging(order, k, outs, acc) ==
    IF k > Len(order) THEN acc
    ELSE LET o == outs[order[k]]
             sum == LET RECURSIVE S(_)
                        S(i) == IF i = 0 THEN 0 ELSE S(i - 1) + o.risks[i].Score
                    IN  S(Len(o.risks))
         IN  IF o.err THEN detectorLoopMerging(order, k + 1, outs, acc)
             ELSE detectorLoopMerging(order, k + 1, outs,
                      [mergeLoop(o.risks, 1, acc) EXCEPT
                          !.totalScore = acc.totalScore + sum])

RECURSIVE detectorLoop(_, _, _, _)
\* step 1 of doContentCheck: the detectors in the order the detector map
\* yields them; a detector that returned an error is skipped
detectorLoop(order, k, outs, acc) ==
    IF k > Len(order) THEN acc
    ELSE LET o == outs[order[k]]
             sum == LET RECURSIVE S(_)
                        S(i) == IF i = 0 THEN 0 ELSE S(i - 1) + o.risks[i].Score
                    IN  S(Len(o.risks))
             top == LET RECURSIVE M(_, _)
                        M(i, m) == IF i > Len(o.risks) THEN m
                                   ELSE M(i + 1, IF o.risks[i].Score > m
                                                 THEN o.risks[i].Score ELSE m)
                    IN  M(1, acc.maxScore)
         IN  IF o.err THEN detectorLoop(order, k + 1, outs, acc)
             ELSE detectorLoop(order, k + 1, outs,
                               [allRisks |-> acc.allRisks \o o.risks,
                                totalScore |-> acc.totalScore + sum,
                                maxScore |-> top])

\* a faulty variant of Band: the lower edge of each band is excluded
BandExclusive(finalScore) ==
    IF finalScore > RiskScoreThreshold THEN ResultTypeReject
    ELSE IF 10 * finalScore > 7 * RiskScoreThreshold THEN ResultTypeReview
    ELSE IF 10 * finalScore > 5 * RiskScoreThreshold THEN ResultTypeWarning
    ELSE ResultTypePass

\* step 3 of doContentCheck: the band of the final score (float32 70*0.7 is
\* 49 and 70*0.5 is 35: compared in tenths)
Band(finalScore) ==
    IF finalScore >= RiskScoreThreshold THEN ResultTypeReject
    ELSE IF 10 * finalScore >= 7 * RiskScoreThreshold THEN ResultTypeReview
    ELSE IF 10 * finalScore >= 5 * RiskScoreThreshold THEN ResultTypeWarning
    ELSE ResultTypePass

\* a faulty variant of applyEngineResult: the verdict is banded whatever the
\* rule engine returned
applyEngineResultBanding(det, ev) ==
    LET merged == IF ev.err THEN det ELSE mergeLoop(ev.res.Risks, 1, det)
        result == Band(merged.maxScore)
    IN  CheckResult(result, merged.maxScore, merged.allRisks,
                    generateSuggestion(result, merged.allRisks),
                    {<<"total_score", ToString(merged.totalScore) \o ".00">>})

\* steps 2 and 3 of doContentCheck from the return of Evaluate on: det is
\* what the detector loop accumulated, ev what Evaluate returned ([err, res])
applyEngineResult(det, ev) ==
    LET merged == IF ev.err THEN det ELSE mergeLoop(ev.res.Risks, 1, det)
        result == Band(merged.maxScore)
    IN  IF ~ev.err /\ ev.res.HasExplicitResult
        THEN CheckResult(ev.res.Result, ev.res.Score, merged.allRisks,
                         ev.res.Suggestion, {})
        ELSE CheckResult(result, merged.maxScore, merged.allRisks,
                         generateSuggestion(result, merged.allRisks),
                         {<<"total_score", ToString(merged.totalScore) \o ".00">>})

(***************************************************************************)
(* doContentCheck.  order is the order in which the detector map is        *)
(* ranged over, outs the value each detector returned, engine the rule     *)
(* engine and sortedRules what its sortRulesByPriority returned.           *)
(* It never returns an error.                                              *)
(***************************************************************************)
doContentCheck(ctx, order, outs, engine, sortedRules) ==
    LET det == detectorLoop(order, 1, outs,
                            [allRisks |-> <<>>, totalScore |-> 0, maxScore |-> 0])
    IN  applyEngineResult(det, Evaluate(engine, sortedRules, ctx, det.allRisks))

(***************************************************************************)
(* Rule files.  RulesDefault is config/rules.json (sensitive_words blocks, *)
(* spam_detection marks, context_analysis reviews, user_reputation none);  *)
(* RulesV2 is an edited file.                                              *)
(***************************************************************************)
Rule(id, name, enabled, priority, action, score, config) ==
    [ID |-> id, Name |-> name, Enabled |-> enabled, Priority |-> priority,
     Action |-> action, Score |-> score, Config |-> config]

RulesDefault ==
    [Rules |->
        [id \in {"sensitive_words", "spam_detection", "context_analysis",
                 "user_reputation"} |->
            CASE id = "sensitive_words" ->
                    Rule(id, "sensitive words", TRUE, 100, "block", 80,
                         [category |-> "sensitive"])
              [] id = "spam_detection" ->
                    Rule(id, "spam", TRUE, 90, "mark", 60, [threshold |-> "0.7"])
              [] id = "context_analysis" ->
                    Rule(id, "context", TRUE, 80, "review", 50,
                         [sensitivity |-> "medium"])
              [] OTHER ->
                    Rule(id, "reputation", TRUE, 70, "none", 30,
                         [low |-> "20"])],
     Actions |-> {"block", "mark", "review", "none"},
     Categories |-> {"sensitive", "spam", "harassment", "hate_speech",
                     "violence", "adult"}]

RulesV2 ==
    [Rules |->
        [id \in {"spam_detection", "user_reputation"} |->
            CASE id = "spam_detection" ->
                    Rule(id, "spam", TRUE, 90, "block", 60, [threshold |-> "0.7"])
              [] OTHER ->
                    Rule(id, "reputation", FALSE, 90, "review", 30,
                         [low |-> "20"])],
     Actions |-> {"block", "review"},
     Categories |-> {"spam"}]

\* a rule file without a blocking rule: two rules of one score, one rule of
\* score 0, and the highest score on the rule of the lowest priority
RulesScored ==
    [Rules |->
        [id \in {"spam_detection", "context_analysis", "user_reputation",
                 "custom"} |->
            CASE id = "spam_detection" ->
                    Rule(id, "spam", TRUE, 90, "mark", 30, [threshold |-> "0.7"])
              [] id = "context_analysis" ->
                    Rule(id, "context", TRUE, 80, "review", 0,
                         [sensitivity |-> "medium"])
              [] id = "user_reputation" ->
                    Rule(id, "reputation", TRUE, 70, "none", 30,
                         [low |-> "20"])
              [] OTHER ->
                    Rule(id, "custom", TRUE, 60, "review", 60, [on |-> "1"])],
     Actions |-> {"mark", "review", "none"},
     Categories |-> {"spam"}]

\* the zero RuleSet pointer of an engine that never loaded
NoRuleSet == [Rules |-> <<>>, Actions |-> {}, Categories |-> {}]

(***************************************************************************)
(* State.                                                                  *)
(***************************************************************************)
VARIABLES
    \* ContentCheckService
    cache,          \* the Redis result cache: cache key -> stored CheckResult
    detectors,      \* s.detectors: the names of the registered detectors
    fallbackMode,   \* fallbackMode of the "nlp" and "semantic_nlp" detectors
    ret,            \* what the last finished API call returned
    stream,         \* the StreamCheckContent call: [state, received, sent,
                    \* req, resp]: the numbers of requests received and of
                    \* responses sent, the last request and the last response
    \* SensitiveWords
    words,          \* sw.words
    filePaths,      \* sw.filePaths
    files,          \* the file system: path -> lines, or unreadable
    upd,            \* the Update call in progress
    swMu,           \* sw.mu, a sync.RWMutex: [writer, readers]
    swCalls,        \* the calls on the word store in progress, per goroutine
    \* RuleEngine
    ruleSet,        \* e.ruleSet
    initialized,    \* e.initialized
    ruleFile,       \* the content of e.ruleFile on disk
    mu,             \* e.mu: [writer, readers]
    loader,         \* the loadRules call in progress
    evals,          \* the Evaluate calls in progress
    \* BatchCheckContent
    bPhase,         \* "idle", "running" or "returned"
    bItems,         \* items after truncation
    taskPc,         \* where each task goroutine is
    taskRes,        \* each task's (result, err) of CheckContent
    resultCh,       \* the buffered completion channel
    chClosed,       \* close(resultCh) has run
    resultMap,      \* the collector's index -> result map
    lastError,      \* the collector's lastError
    overtaken,      \* history: some task reported before a task of lower index
    \* standalone remote-signal detectors under concurrent Detect calls
    latch,          \* fallbackMode of each detector variant
    calls,          \* the Detect calls in progress
    netCalls        \* per variant, the number of network calls made

svcVars == <<cache, detectors, fallbackMode, ret, stream>>
wordVars == <<words, filePaths, files, upd, swMu, swCalls>>
ruleVars == <<ruleSet, initialized, ruleFile, mu, loader, evals>>
batchVars == <<bPhase, bItems, taskPc, taskRes, resultCh, chClosed, resultMap,
               lastError, overtaken>>
latchVars == <<latch, calls, netCalls>>
vars == <<svcVars, wordVars, ruleVars, batchVars, latchVars>>

(***************************************************************************)
(* ContentCheckService: requests, the cache and CheckContent.              *)
(***************************************************************************)
Texts == {TextEmpty, TextClean, TextPromo, TextInsult, TextWord}
Callers == {"u1"}
Requests == [Content : Texts, UserID : Callers, Scene : Scenes]

\* the context lists CheckContentWithContext is called with
ContextLists ==
    {<<>>,
     <<[Content |-> TextStop, UserID |-> "u2"]>>,
     <<[Content |-> TextClean, UserID |-> "u1"],
       [Content |-> TextStop, UserID |-> "u2"],
       [Content |-> TextInsult, UserID |-> "u1"]>>}

\* time.Now().UnixNano() and time.Since(startTime).Milliseconds()
Times == {1}
Elapsed == {5}

ErrEmptyContent == "content is empty"
ErrInvalidRequest == "invalid request"
NoError == ""
NilResult == CheckResult(ResultTypePass, 0, <<>>, "nil", {<<"nil", "nil">>})

\* model.HashString: the MD5 of the content text, in hex (of the text only)
HashString(content) == "md5(" \o content.id \o ")"

\* the cache key built by CheckContent
CacheKey(content) == "content_check:" \o HashString(content)

\* the request id built by CheckContent (prefix "req") and
\* CheckContentWithContext (prefix "req_ctx")
RequestID(prefix, now, userID) == <<prefix, now, userID>>

\* JSON values that can be null: a nil slice or map is written as null, and
\* null is read back as nil
JNull == [null |-> TRUE, v |-> <<>>]
JValue(v) == [null |-> FALSE, v |-> v]

\* json.Marshal of a CheckResult: the bytes stored in Redis, as the JSON
\* document they spell (every field of the struct is exported and untagged)
Marshal(result) ==
    [valid |-> TRUE,
     doc |-> [Result |-> result.Result,
              RiskScore |-> result.RiskScore,
              Risks |-> IF result.Risks = <<>> THEN JNull
                        ELSE JValue(result.Risks),
              RequestID |-> result.RequestID,
              Suggestion |-> result.Suggestion,
              CostTime |-> result.CostTime,
              Extra |-> IF result.Extra = {} THEN JNull
                        ELSE JValue(result.Extra)]]

\* bytes that are no JSON document of a CheckResult
Garbage == [valid |-> FALSE, doc |-> <<>>]

\* json.Unmarshal into a CheckResult: [ok, result]
Unmarshal(data) ==
    IF ~data.valid THEN [ok |-> FALSE, result |-> NilResult]
    ELSE [ok |-> TRUE,
          result |-> [Result |-> data.doc.Result,
                      RiskScore |-> data.doc.RiskScore,
                      Risks |-> IF data.doc.Risks.null THEN <<>>
                                ELSE data.doc.Risks.v,
                      RequestID |-> data.doc.RequestID,
                      Suggestion |-> data.doc.Suggestion,
                      CostTime |-> data.doc.CostTime,
                      Extra |-> IF data.doc.Extra.null THEN {}
                                ELSE data.doc.Extra.v]]

\* getCachedResult: an error (a miss for the caller) when the client is
\* absent, the Get fails, the key is not there or the entry does not decode
getCachedResult(store, key, redisOK) ==
    IF redisOK /\ key \in DOMAIN store /\ Unmarshal(store[key]).ok
    THEN [hit |-> TRUE, result |-> Unmarshal(store[key]).result]
    ELSE [hit |-> FALSE, result |-> NilResult]

\* cacheResult: the store afterwards; an absent client or a failed Set
\* leaves it as it is (the failure is only logged)
cacheResult(store, key, result, redisOK) ==
    IF redisOK THEN (key :> Marshal(result)) @@ store ELSE store

\* a faulty variant of cacheUnlessReject: every result is cached
cacheAlways(store, key, result, redisOK) == cacheResult(store, key, result, redisOK)

\* "if result.Result != model.ResultTypeReject { s.cacheResult(...) }"
cacheUnlessReject(store, key, result, redisOK) ==
    IF result.Result # ResultTypeReject
    THEN cacheResult(store, key, result, redisOK)
    ELSE store

(***************************************************************************)
(* One run of the detectors: for every registered detector the value its   *)
(* Detect returns, and the fallback flags afterwards.  The word map's      *)
(* order, the classifier's order and the remote services' answers are      *)
(* chosen here; a detector in fallback mode makes no call.                 *)
(***************************************************************************)
DetectorRunsOn(ctx, aiResponses, nlpAnswers, llmAnswers) ==
    LET aiAnswers == IF "ai" \in detectors THEN aiResponses ELSE {AINoRisk}
    IN  {LET nlp == LatchDetect(ctx, fallbackMode["nlp"], a1)
             llm == LatchDetect(ctx, fallbackMode["semantic_nlp"], a2)
         IN  [outs |-> [d \in detectors |->
                          CASE d = "sensitive" -> SensitiveWordDetect(ctx, cw)
                            [] d = "spam" -> SpamDetect(ctx)
                            [] d = "harassment" -> HarassmentDetect(ctx)
                            [] d = "semantic" -> sem
                            [] d = "nlp" -> nlp.out
                            [] d = "semantic_nlp" -> llm.out
                            [] OTHER -> AIDetect(ctx, ai)],
              fallbackMode |->
                  [d \in DOMAIN fallbackMode |->
                      IF d \notin detectors THEN fallbackMode[d]
                      ELSE IF d = "nlp" THEN nlp.fallbackMode
                      ELSE llm.fallbackMode]] :
            cw \in ContainsWord(words, ctx.Content),
            sem \in SemanticDetect(ctx),
            ai \in aiAnswers,
            a1 \in nlpAnswers,
            a2 \in llmAnswers}

\* the answers the live call of detector d can get; a detector that is not
\* registered or is in fallback mode makes no call
LiveAnswers(d) ==
    IF d \in detectors /\ ~fallbackMode[d] THEN AnalysisOutcomes
    ELSE {AnalysisFailed}

DetectorRunsWith(ctx, aiResponses) ==
    DetectorRunsOn(ctx, aiResponses, LiveAnswers("nlp"),
                   LiveAnswers("semantic_nlp"))

DetectorRuns(ctx) == DetectorRunsWith(ctx, AIResponses)

(***************************************************************************)
(* The orders in which `for name, detector := range s.detectors` can visit *)
(* the detectors.  Go leaves the order of a map range unspecified.  A      *)
(* detector that returns no risk (or an error) leaves the accumulated list *)
(* as it is, so the orders that differ only in where such detectors stand  *)
(* give the same result: one representative of each class is kept.         *)
(***************************************************************************)
DetectorOrders(outs) ==
    LET silent == {d \in DOMAIN outs : outs[d].err \/ outs[d].risks = <<>>}
    IN  {SetToSeq(silent) \o p : p \in Perms(DOMAIN outs \ silent)}

\* the possible outcomes of doContentCheck in the current state
PipelineRuns(ctx) ==
    LET sorted == SortedRules(ruleSet)
    IN  UNION {{[result |-> doContentCheck(ctx, order, run.outs,
                                           [ruleSet |-> ruleSet,
                                            initialized |-> initialized], sr),
                 fallbackMode |-> run.fallbackMode] :
                   order \in DetectorOrders(run.outs), sr \in sorted} :
               run \in DetectorRuns(ctx)}

\* what an API call returned: the operation, its arguments (a CheckContext
\* for a single-item call, the item list for a batch), the result, the error
\* and whether the result came from the cache
Return(op, req, result, err, hit) ==
    [op |-> op, req |-> req, result |-> result, err |-> err, hit |-> hit]

(***************************************************************************)
(* CheckContent, as the two steps a caller can be seen in: the cache       *)
(* lookup, and (on a miss) the evaluation with the cache write.            *)
(***************************************************************************)
\* a faulty variant of checkContentLookup: a hit returns the entry with the
\* CostTime it was stored with
checkContentLookupKeepingCost(req, store, redisOK, now) ==
    LET look == getCachedResult(store, CacheKey(req.Content), redisOK)
    IN  IF req.Content.len = 0
        THEN [done |-> TRUE, hit |-> FALSE, result |-> NilResult,
              err |-> ErrEmptyContent]
        ELSE IF look.hit
        THEN [done |-> TRUE, hit |-> TRUE,
              result |-> [look.result EXCEPT
                             !.RequestID = RequestID("req", now, req.UserID)],
              err |-> NoError]
        ELSE [done |-> FALSE, hit |-> FALSE, result |-> NilResult,
              err |-> NoError]

\* a faulty variant of checkContentLookup: empty content is answered with a
\* default Pass verdict
checkContentLookupDefaulting(req, store, redisOK, now) ==
    LET look == getCachedResult(store, CacheKey(req.Content), redisOK)
    IN  IF req.Content.len = 0
        THEN [done |-> TRUE, hit |-> FALSE,
              result |-> CheckResult(ResultTypePass, 0, <<>>, "", {}),
              err |-> NoError]
        ELSE IF look.hit
        THEN [done |-> TRUE, hit |-> TRUE,
              result |-> [look.result EXCEPT
                             !.RequestID = RequestID("req", now, req.UserID),
                             !.CostTime = 0],
              err |-> NoError]
        ELSE [done |-> FALSE, hit |-> FALSE, result |-> NilResult,
              err |-> NoError]

\* a faulty variant of checkContentLookup: a failure of the cache backend is
\* returned to the caller
checkContentLookupSurfacing(req, store, redisOK, now) ==
    LET look == getCachedResult(store, CacheKey(req.Content), redisOK)
    IN  IF req.Content.len = 0
        THEN [done |-> TRUE, hit |-> FALSE, result |-> NilResult,
              err |-> ErrEmptyContent]
        ELSE IF look.hit
        THEN [done |-> TRUE, hit |-> TRUE,
              result |-> [look.result EXCEPT
                             !.RequestID = RequestID("req", now, req.UserID),
                             !.CostTime = 0],
              err |-> NoError]
        ELSE IF ~redisOK
        THEN [done |-> TRUE, hit |-> FALSE, result |-> NilResult,
              err |-> "redis client not available"]
        ELSE [done |-> FALSE, hit |-> FALSE, result |-> NilResult,
              err |-> NoError]

\* lines 149-164: validation, request id, cache lookup.  [done, result, err]
checkContentLookup(req, store, redisOK, now) ==
    LET look == getCachedResult(store, CacheKey(req.Content), redisOK)
    IN  IF req.Content.len = 0
        THEN [done |-> TRUE, hit |-> FALSE, result |-> NilResult,
              err |-> ErrEmptyContent]
        ELSE IF look.hit
        THEN [done |-> TRUE, hit |-> TRUE,
              result |-> [look.result EXCEPT
                             !.RequestID = RequestID("req", now, req.UserID),
                             !.CostTime = 0],
              err |-> NoError]
        ELSE [done |-> FALSE, hit |-> FALSE, result |-> NilResult,
              err |-> NoError]

\* lines 175-176: the result stamped with the request id and the cost
stamped(result, prefix, now, userID, elapsed) ==
    [result EXCEPT !.RequestID = RequestID(prefix, now, userID),
                   !.CostTime = elapsed]

\* lines 166-183 of CheckContent (after a miss): the possible
\* [result, cache, fallbackMode] of the evaluation and the cache write
checkContentEvaluate(req, now) ==
    {LET result == stamped(run.result, "req", now, req.UserID, elapsed)
     IN  [result |-> result,
          cache |-> cacheUnlessReject(cache, CacheKey(req.Content), result, setOK),
          fallbackMode |-> run.fallbackMode] :
        run \in PipelineRuns(CheckContext(req.Content, req.UserID, req.Scene,
                                          <<>>)),
        setOK \in BOOLEAN, elapsed \in Elapsed}

\* a whole CheckContent call run without interruption: the possible
\* [result, err, hit, cache, fallbackMode]
CheckContentRuns(req) ==
    UNION {LET look == checkContentLookup(req, cache, redisOK, now)
           IN  IF look.done
               THEN {[result |-> look.result, err |-> look.err,
                      hit |-> look.hit, cache |-> cache,
                      fallbackMode |-> fallbackMode]}
               ELSE {[result |-> e.result, err |-> NoError, hit |-> FALSE,
                      cache |-> e.cache, fallbackMode |-> e.fallbackMode] :
                        e \in checkContentEvaluate(req, now)} :
             redisOK \in BOOLEAN, now \in Times}

\* The client makes one API call at a time.  The locals of the batch or stream
\* call that returned before are gone once the next call is made.
NoCallInProgress == bPhase # "running" /\ stream.state # "open"

NoRequest == [Content |-> TextEmpty, UserID |-> "", Scene |-> ""]
StreamClosed ==
    [state |-> "closed", received |-> 0, sent |-> 0, req |-> NoRequest,
     resp |-> NilResult]

ForgetBatch ==
    /\ bPhase' = "idle"
    /\ bItems' = <<>>
    /\ taskPc' = <<>>
    /\ taskRes' = <<>>
    /\ resultCh' = <<>>
    /\ chClosed' = FALSE
    /\ resultMap' = <<>>
    /\ lastError' = NoError
    /\ overtaken' = FALSE

\* CheckContent called directly by a client
CheckContent(req) ==
    /\ NoCallInProgress
    /\ \E r \in CheckContentRuns(req) :
          /\ cache' = r.cache
          /\ fallbackMode' = r.fallbackMode
          /\ ret' = Return("CheckContent",
                           CheckContext(req.Content, req.UserID, req.Scene, <<>>),
                           r.result, r.err, r.hit)
    /\ ForgetBatch
    /\ stream' = StreamClosed
    /\ UNCHANGED <<detectors, wordVars, ruleVars, latchVars>>

\* a faulty variant of CheckContentWithContext: a cached verdict of the
\* content text is returned when there is one
CheckContentWithContextCached(req, contextItems) ==
    /\ NoCallInProgress
    /\ LET ctx == CheckContext(req.Content, req.UserID, req.Scene, contextItems)
           look == getCachedResult(cache, CacheKey(req.Content), TRUE)
       IN  IF req.Content.len = 0
           THEN /\ ret' = Return("CheckContentWithContext", ctx, NilResult,
                                 ErrEmptyContent, FALSE)
                /\ UNCHANGED fallbackMode
           ELSE IF look.hit
           THEN /\ \E now \in Times :
                      ret' = Return("CheckContentWithContext", ctx,
                                    stamped(look.result, "req_ctx", now,
                                            req.UserID, 0),
                                    NoError, FALSE)
                /\ UNCHANGED fallbackMode
           ELSE \E run \in PipelineRuns(ctx), now \in Times, elapsed \in Elapsed :
                   /\ fallbackMode' = run.fallbackMode
                   /\ ret' = Return("CheckContentWithContext", ctx,
                                    stamped(run.result, "req_ctx", now,
                                            req.UserID, elapsed),
                                    NoError, FALSE)
    /\ ForgetBatch
    /\ stream' = StreamClosed
    /\ UNCHANGED <<cache, detectors, wordVars, ruleVars, latchVars>>

\* CheckContentWithContext: no cache access
CheckContentWithContext(req, contextItems) ==
    /\ NoCallInProgress
    /\ IF req.Content.len = 0
       THEN /\ ret' = Return("CheckContentWithContext",
                             CheckContext(req.Content, req.UserID, req.Scene,
                                          contextItems),
                             NilResult, ErrEmptyContent, FALSE)
            /\ UNCHANGED fallbackMode
       ELSE \E run \in PipelineRuns(CheckContext(req.Content, req.UserID,
                                                 req.Scene, contextItems)),
               now \in Times, elapsed \in Elapsed :
               /\ fallbackMode' = run.fallbackMode
               /\ ret' = Return("CheckContentWithContext",
                                CheckContext(req.Content, req.UserID, req.Scene,
                                             contextItems),
                                stamped(run.result, "req_ctx", now, req.UserID,
                                        elapsed),
                                NoError, FALSE)
    /\ ForgetBatch
    /\ stream' = StreamClosed
    /\ UNCHANGED <<cache, detectors, wordVars, ruleVars, latchVars>>

\* an entry's TTL (cfg.ContentCheck.CacheTTL) runs out
CacheExpire(key) ==
    /\ key \in DOMAIN cache
    /\ cache' = [k \in DOMAIN cache \ {key} |-> cache[k]]
    /\ UNCHANGED <<detectors, fallbackMode, ret, stream, wordVars, ruleVars,
                   batchVars, latchVars>>

\* an entry of the cache is overwritten with bytes that do not decode
CacheCorrupt(key) ==
    /\ key \in DOMAIN cache
    /\ cache[key].valid
    /\ cache' = [cache EXCEPT ![key] = Garbage]
    /\ UNCHANGED <<detectors, fallbackMode, ret, stream, wordVars, ruleVars,
                   batchVars, latchVars>>

(***************************************************************************)
(* StreamCheckContent: one loop iteration per step (Recv, CheckContent,    *)
(* Send); any failure ends the call.                                       *)
(***************************************************************************)
MaxStream == 2

StreamOpen ==
    /\ NoCallInProgress
    /\ stream' = [StreamClosed EXCEPT !.state = "open"]
    /\ ret' = Return("StreamCheckContent", <<>>, NilResult, "pending", FALSE)
    /\ ForgetBatch
    /\ UNCHANGED <<cache, detectors, fallbackMode, wordVars, ruleVars, latchVars>>

StreamEnd(err) == Return("StreamCheckContent", <<>>, NilResult, err, FALSE)

\* stream.Recv() fails (the client went away)
StreamRecvFail ==
    /\ stream.state = "open"
    /\ stream' = [stream EXCEPT !.state = "ended"]
    /\ ret' = StreamEnd("failed to receive request")
    /\ UNCHANGED <<cache, detectors, fallbackMode, wordVars, ruleVars,
                   batchVars, latchVars>>

\* a faulty variant of StreamIteration: a request whose check fails is
\* skipped and the loop goes on
StreamIterationSkipping(req) ==
    /\ stream.state = "open"
    /\ stream.received < MaxStream
    /\ \E r \in CheckContentRuns(req), sendOK \in BOOLEAN :
          /\ cache' = r.cache
          /\ fallbackMode' = r.fallbackMode
          /\ IF r.err # NoError
             THEN /\ stream' = [stream EXCEPT !.received = @ + 1, !.req = req]
                  /\ UNCHANGED ret
             ELSE IF sendOK
             THEN /\ stream' = [stream EXCEPT !.received = @ + 1,
                                              !.sent = @ + 1,
                                              !.req = req,
                                              !.resp = r.result]
                  /\ UNCHANGED ret
             ELSE /\ stream' = [stream EXCEPT !.state = "ended",
                                              !.received = @ + 1,
                                              !.req = req]
                  /\ ret' = StreamEnd("failed to send response")
    /\ UNCHANGED <<detectors, wordVars, ruleVars, batchVars, latchVars>>

\* one iteration of the loop: Recv, CheckContent, Send
StreamIteration(req) ==
    /\ stream.state = "open"
    /\ stream.received < MaxStream
    /\ \E r \in CheckContentRuns(req), sendOK \in BOOLEAN :
          /\ cache' = r.cache
          /\ fallbackMode' = r.fallbackMode
          /\ IF r.err # NoError
             THEN /\ stream' = [stream EXCEPT !.state = "ended",
                                              !.received = @ + 1,
                                              !.req = req]
                  /\ ret' = StreamEnd("failed to check content")
             ELSE IF sendOK
             THEN /\ stream' = [stream EXCEPT !.received = @ + 1,
                                              !.sent = @ + 1,
                                              !.req = req,
                                              !.resp = r.result]
                  /\ UNCHANGED ret
             ELSE /\ stream' = [stream EXCEPT !.state = "ended",
                                              !.received = @ + 1,
                                              !.req = req]
                  /\ ret' = StreamEnd("failed to send response")
    /\ UNCHANGED <<detectors, wordVars, ruleVars, batchVars, latchVars>>

(***************************************************************************)
(* BatchCheckContent.  Indices are 1-based here (0-based in the code).     *)
(***************************************************************************)
\* cfg.ContentCheck.BatchCheckMaxSize, as bounded in the model
MaxBatch == 2

BatchRequests ==
    {[Content |-> c, UserID |-> "u1", Scene |-> "post"] :
        c \in {TextEmpty, TextPromo, TextWord}}
\* the item lists of the calls: every list of up to two requests, and the
\* longer lists (up to one request more than the maximum) that go on
\* "get badword", "call 555-1234 $99", "", "get badword", ...
BatchInputs ==
    SeqsBetween(BatchRequests, 0, 2)
    \cup {[i \in 1..n |->
              [Content |-> CASE i % 3 = 1 -> TextWord
                             [] i % 3 = 2 -> TextPromo
                             [] OTHER -> TextEmpty,
               UserID |-> "u1", Scene |-> "post"]] : n \in 3..(MaxBatch + 1)}
BatchIDs == {"b1"}

\* a faulty variant of truncate: the list is processed whole
truncateNothing(items) == items

\* "if len(items) > max { items = items[:max] }"
truncate(items) ==
    IF Len(items) > MaxBatch THEN SubSeq(items, 1, MaxBatch) ELSE items

\* a task goroutine's local (result, err), before CheckContent returned
NoTaskRes == [now |-> 0, result |-> NilResult, err |-> NoError]

\* a faulty variant of collect: the result is stored at the position of its
\* arrival instead of at res.index
collectByArrival(map, last, res) ==
    IF res.err # NoError
    THEN [resultMap |-> map, lastError |-> res.err]
    ELSE [resultMap |-> ((Cardinality(DOMAIN map) + 1) :> res.result) @@ map,
          lastError |-> last]

\* a faulty variant of collect: a failed report is dropped without a trace
collectSwallowing(map, last, res) ==
    IF res.err # NoError
    THEN [resultMap |-> map, lastError |-> last]
    ELSE [resultMap |-> (res.index :> res.result) @@ map, lastError |-> last]

\* the collector's loop body for one received batchResult
collect(map, last, res) ==
    IF res.err # NoError
    THEN [resultMap |-> map, lastError |-> res.err]
    ELSE [resultMap |-> (res.index :> res.result) @@ map, lastError |-> last]

\* the default Pass result of a failed item
placeholder(batchID, i) ==
    [Result |-> ResultTypePass, RiskScore |-> 0, Risks |-> <<>>,
     RequestID |-> <<"batch", i - 1, batchID>>, Suggestion |-> "",
     CostTime |-> 0, Extra |-> {<<"error", "processing failed">>}]

\* a faulty variant of assemble: a failed item gets no entry
assembleDroppingFailed(items, map, batchID) ==
    LET RECURSIVE A(_)
        A(i) == IF i = 0 THEN <<>>
                ELSE IF i \in DOMAIN map THEN Append(A(i - 1), map[i])
                ELSE A(i - 1)
    IN  A(Len(items))

\* "for i := 0; i < len(items); i++ { ... }": the ordered result list
assemble(items, map, batchID) ==
    [i \in 1..Len(items) |->
        IF i \in DOMAIN map THEN map[i] ELSE placeholder(batchID, i)]

\* lines 211-243: validation, truncation, one goroutine per item
BatchStart(items, batchID) ==
    /\ NoCallInProgress
    /\ IF Len(items) = 0
       THEN /\ ret' = Return("BatchCheckContent", items, NilResult,
                             ErrInvalidRequest, FALSE)
            /\ ForgetBatch
       ELSE /\ bPhase' = "running"
            /\ bItems' = truncate(items)
            /\ taskPc' = [i \in 1..Len(truncate(items)) |-> "lookup"]
            /\ taskRes' = [i \in 1..Len(truncate(items)) |-> NoTaskRes]
            /\ resultCh' = <<>>
            /\ chClosed' = FALSE
            /\ resultMap' = <<>>
            /\ lastError' = NoError
            /\ overtaken' = FALSE
            /\ ret' = Return("BatchCheckContent", items, NilResult, "pending",
                             FALSE)
    /\ stream' = StreamClosed
    /\ UNCHANGED <<cache, detectors, fallbackMode, wordVars, ruleVars, latchVars>>

\* task i: CheckContent up to the cache lookup
TaskLookup(i) ==
    /\ bPhase = "running"
    /\ i \in DOMAIN taskPc
    /\ taskPc[i] = "lookup"
    /\ \E redisOK \in BOOLEAN, now \in Times :
          LET look == checkContentLookup(bItems[i], cache, redisOK, now)
          IN  /\ taskRes' = [taskRes EXCEPT ![i] =
                                [now |-> now, result |-> look.result,
                                 err |-> look.err]]
              /\ taskPc' = [taskPc EXCEPT ![i] =
                                IF look.done THEN "send" ELSE "eval"]
    /\ UNCHANGED <<svcVars, wordVars, ruleVars, bPhase, bItems, resultCh,
                   chClosed, resultMap, lastError, overtaken, latchVars>>

\* task i: CheckContent after a miss
TaskEval(i) ==
    /\ bPhase = "running"
    /\ i \in DOMAIN taskPc
    /\ taskPc[i] = "eval"
    /\ \E e \in checkContentEvaluate(bItems[i], taskRes[i].now) :
          /\ cache' = e.cache
          /\ fallbackMode' = e.fallbackMode
          /\ taskRes' = [taskRes EXCEPT ![i].result = e.result]
    /\ taskPc' = [taskPc EXCEPT ![i] = "send"]
    /\ UNCHANGED <<detectors, ret, stream, wordVars, ruleVars, bPhase, bItems,
                   resultCh, chClosed, resultMap, lastError, overtaken, latchVars>>

\* task i: "resultCh <- &batchResult{...}", then the deferred wg.Done().
\* The channel's capacity is len(items).
TaskSend(i) ==
    /\ bPhase = "running"
    /\ i \in DOMAIN taskPc
    /\ taskPc[i] = "send"
    /\ Len(resultCh) < Len(bItems)
    /\ resultCh' = Append(resultCh, [index |-> i, result |-> taskRes[i].result,
                                     err |-> taskRes[i].err])
    /\ taskPc' = [taskPc EXCEPT ![i] = "done"]
    /\ overtaken' = (overtaken \/ \E j \in DOMAIN taskPc : j > i /\ taskPc[j] = "done")
    /\ UNCHANGED <<svcVars, wordVars, ruleVars, bPhase, bItems, taskRes,
                   chClosed, resultMap, lastError, latchVars>>

\* a faulty variant of CloseChannel: the channel is closed without waiting
\* for the tasks (no wg.Wait())
CloseChannelEarly ==
    /\ bPhase = "running"
    /\ ~chClosed
    /\ chClosed' = TRUE
    /\ UNCHANGED <<svcVars, wordVars, ruleVars, bPhase, bItems, taskPc, taskRes,
                   resultCh, resultMap, lastError, overtaken, latchVars>>

\* the closer goroutine: wg.Wait() returned, close(resultCh)
CloseChannel ==
    /\ bPhase = "running"
    /\ ~chClosed
    /\ \A i \in DOMAIN taskPc : taskPc[i] = "done"
    /\ chClosed' = TRUE
    /\ UNCHANGED <<svcVars, wordVars, ruleVars, bPhase, bItems, taskPc, taskRes,
                   resultCh, resultMap, lastError, overtaken, latchVars>>

\* the collector: one iteration of "for res := range resultCh"
Collect ==
    /\ bPhase = "running"
    /\ resultCh # <<>>
    /\ LET c == collect(resultMap, lastError, Head(resultCh))
       IN  /\ resultMap' = c.resultMap
           /\ lastError' = c.lastError
    /\ resultCh' = Tail(resultCh)
    /\ UNCHANGED <<svcVars, wordVars, ruleVars, bPhase, bItems, taskPc, taskRes,
                   chClosed, overtaken, latchVars>>

\* the range loop ends (channel closed and drained); lines 257-277
BatchReturn(batchID) ==
    /\ bPhase = "running"
    /\ chClosed
    /\ resultCh = <<>>
    /\ bPhase' = "returned"
    /\ ret' = Return("BatchCheckContent", ret.req,
                     [BatchID |-> batchID,
                      Results |-> assemble(bItems, resultMap, batchID)],
                     lastError, FALSE)
    /\ UNCHANGED <<cache, detectors, fallbackMode, stream, wordVars, ruleVars,
                   bItems, taskPc, taskRes, resultCh, chClosed, resultMap,
                   lastError, overtaken, latchVars>>

(***************************************************************************)
(* NewContentCheckService.                                                 *)
(***************************************************************************)
\* the configurations the service is started with: no remote detector, the
\* AI detector only and the local LLM only (config.yaml switches these two on
\* together and the cloud NLP service off)
ConfigLocal == [NLPEnabled |-> FALSE, UseMLModel |-> FALSE, UseLocalLLM |-> FALSE]
ConfigAI == [NLPEnabled |-> FALSE, UseMLModel |-> TRUE, UseLocalLLM |-> FALSE]
ConfigLLM == [NLPEnabled |-> FALSE, UseMLModel |-> FALSE, UseLocalLLM |-> TRUE]
Configs == {ConfigLocal, ConfigAI, ConfigLLM}

\* a faulty variant of registeredDetectors: the constructors' errors are
\* logged and the detectors registered all the same
registeredDetectorsDespiteError(cfg, nlpProbeOK, llmProbeOK) ==
    {"sensitive", "spam", "harassment", "semantic"}
    \cup (IF cfg.NLPEnabled THEN {"nlp"} ELSE {})
    \cup (IF cfg.UseMLModel THEN {"ai"} ELSE {})
    \cup (IF cfg.UseLocalLLM THEN {"semantic_nlp"} ELSE {})

\* the detector map built by the constructor: a remote detector whose
\* constructor returned an error (its probe failed) is not registered
registeredDetectors(cfg, nlpProbeOK, llmProbeOK) ==
    {"sensitive", "spam", "harassment", "semantic"}
    \cup (IF cfg.NLPEnabled /\ nlpProbeOK THEN {"nlp"} ELSE {})
    \cup (IF cfg.UseMLModel THEN {"ai"} ELSE {})
    \cup (IF cfg.UseLocalLLM /\ llmProbeOK THEN {"semantic_nlp"} ELSE {})

NoReturn == Return("none", <<>>, NilResult, NoError, FALSE)

\* the rule file on disk: unreadable, not valid JSON, or a document with the
\* rules as a list
RuleFileUnreadable ==
    [readable |-> FALSE, valid |-> FALSE, Rules |-> <<>>, Actions |-> {},
     Categories |-> {}]
RuleFileMalformed ==
    [readable |-> TRUE, valid |-> FALSE, Rules |-> <<>>, Actions |-> {},
     Categories |-> {}]
RuleFileOf(rs) ==
    [readable |-> TRUE, valid |-> TRUE,
     Rules |-> SetToSeq({rs.Rules[id] : id \in DOMAIN rs.Rules}),
     Actions |-> rs.Actions, Categories |-> rs.Categories]
RuleFiles ==
    {RuleFileUnreadable, RuleFileMalformed, RuleFileOf(RulesDefault),
     RuleFileOf(RulesV2)}

\* lines 91-99 of loadRules: the RuleSet built from the decoded document; of
\* two rules with one id the later one stays
buildRuleSet(data) ==
    [Rules |->
        [id \in {data.Rules[i].ID : i \in DOMAIN data.Rules} |->
            data.Rules[CHOOSE i \in DOMAIN data.Rules :
                          /\ data.Rules[i].ID = id
                          /\ \A j \in DOMAIN data.Rules :
                                j > i => data.Rules[j].ID # id]],
     Actions |-> data.Actions,
     Categories |-> data.Categories]

\* the loadRules call and the Evaluate calls when none is in progress
\* (before: the rule set that was active when the load took the lock)
NoLoad ==
    [pc |-> "idle", data |-> RuleFileUnreadable, before |-> NoRuleSet,
     outcome |-> "none"]
NoEval ==
    [pc |-> "idle", ctx |-> CheckContext(TextEmpty, "", "", <<>>),
     existing |-> <<>>, seenLen |-> 0, seen |-> NoRuleSet, err |-> FALSE,
     res |-> [Result |-> ResultTypePass, Score |-> 0, Risks |-> <<>>,
              Suggestion |-> "", HasExplicitResult |-> FALSE]]

\* values of the variables a specification leaves alone
WordsIdle ==
    /\ words = {"badword"}
    /\ filePaths = <<"config/sensitive_words.txt">>
    /\ files = [p \in {"config/sensitive_words.txt", "extra.txt"} |->
                   [ok |-> TRUE, lines |-> <<"badword">>]]
    /\ upd = [pc |-> "idle", paths |-> <<>>, k |-> 0, newWords |-> {},
              outcome |-> "none"]
    /\ swMu = [writer |-> "none", readers |-> {}]
    /\ swCalls = <<>>

RulesIdle ==
    /\ ruleSet = RulesDefault
    /\ initialized = TRUE
    /\ ruleFile = RuleFileOf(RulesDefault)
    /\ mu = [writer |-> FALSE, readers |-> {}]
    /\ loader = NoLoad
    /\ evals = <<>>

BatchIdle ==
    /\ bPhase = "idle"
    /\ bItems = <<>>
    /\ taskPc = <<>>
    /\ taskRes = <<>>
    /\ resultCh = <<>>
    /\ chClosed = FALSE
    /\ resultMap = <<>>
    /\ lastError = NoError
    /\ overtaken = FALSE

LatchIdle ==
    /\ latch = <<>>
    /\ calls = <<>>
    /\ netCalls = <<>>

(***************************************************************************)
(* Spec: the service after NewContentCheckService, serving CheckContent,   *)
(* CheckContentWithContext, StreamCheckContent and BatchCheckContent.      *)
(***************************************************************************)
Init ==
    /\ cache = <<>>
    /\ \E cfg \in Configs, nlpProbeOK \in BOOLEAN, llmProbeOK \in BOOLEAN :
          detectors = registeredDetectors(cfg, nlpProbeOK, llmProbeOK)
    /\ fallbackMode = [d \in {"nlp", "semantic_nlp"} |-> FALSE]
    /\ ret = NoReturn
    /\ stream = StreamClosed
    /\ WordsIdle
    /\ RulesIdle
    /\ BatchIdle
    /\ LatchIdle

Next ==
    \/ \E req \in Requests : CheckContent(req)
    \/ \E req \in Requests, items \in ContextLists :
          CheckContentWithContext(req, items)
    \/ \E key \in DOMAIN cache : CacheExpire(key)
    \/ StreamOpen
    \/ StreamRecvFail
    \/ \E req \in Requests : StreamIteration(req)
    \/ \E items \in BatchInputs, id \in BatchIDs : BatchStart(items, id)
    \/ \E i \in DOMAIN taskPc : TaskLookup(i)
    \/ \E i \in DOMAIN taskPc : TaskEval(i)
    \/ \E i \in DOMAIN taskPc : TaskSend(i)
    \/ CloseChannel
    \/ Collect
    \/ \E id \in BatchIDs : BatchReturn(id)

Spec == Init /\ [][Next]_vars

(***************************************************************************)
(* Properties of the service (Spec).                                       *)
(***************************************************************************)
SingleItemOps == {"CheckContent", "CheckContentWithContext"}

\* the last call was a single-item call that ran the pipeline
PipelineReturned ==
    /\ ret.op \in SingleItemOps
    /\ ret.err = NoError
    /\ ~ret.hit

\* C1: after any sequence of CheckContent, CheckContentWithContext,
\* BatchCheckContent and StreamCheckContent calls, no entry of the result
\* cache holds a verdict whose Result is Reject.
C1_CacheNeverHoldsReject ==
    \A key \in DOMAIN cache :
        Unmarshal(cache[key]).ok =>
            Unmarshal(cache[key]).result.Result # ResultTypeReject

\* C1 happens: CheckContent computed a Reject verdict on a miss, returned it,
\* and the cache (which holds another content's verdict) has no entry for it
C1_Witness ==
    /\ ret.op = "CheckContent"
    /\ PipelineReturned
    /\ ret.result.Result = ResultTypeReject
    /\ CacheKey(ret.req.Content) \notin DOMAIN cache
    /\ cache # <<>>

\* the risk list doContentCheck builds from the detectors' values when they
\* are visited in the given order: each detector's items as returned, those
\* of a failed detector left out
AsReturned(order, outs) ==
    Concat([k \in DOMAIN order |->
               IF outs[order[k]].err THEN <<>> ELSE outs[order[k]].risks])

NoTwoOfOneType(risks) ==
    \A i, j \in DOMAIN risks : i # j => risks[i].Type # risks[j].Type

\* C2 as stated: every CheckResult returned by the single-item pipeline has at
\* most one RiskItem per risk type in its risk list.
C2_AtMostOnePerType ==
    PipelineReturned => NoTwoOfOneType(ret.result.Risks)

\* C2, amended: the risk list returned by the single-item pipeline holds the
\* items of the detectors exactly as they returned them, in the order the
\* detectors were visited (several items of one type stay several items); only
\* items produced by the rule engine are merged by type.
C2_DetectorItemsKeptAsReturned ==
    PipelineReturned =>
        \E run \in DetectorRuns(ret.req) :
            \E order \in DetectorOrders(run.outs) :
                ret.result.Risks = AsReturned(order, run.outs)

\* C2 happens: the pipeline returned a list with two items of one type
C2_Witness ==
    /\ PipelineReturned
    /\ ~NoTwoOfOneType(ret.result.Risks)

BatchReturned == bPhase = "returned" /\ ret.op = "BatchCheckContent"

\* C3: for every batch and every order in which the per-item tasks complete,
\* position i of the returned list holds the verdict of input item i, for
\* all i below the processed length.
C3_BatchOrderIsInputOrder ==
    BatchReturned =>
        /\ Len(ret.result.Results) = Len(bItems)
        /\ \A i \in DOMAIN bItems :
              /\ bItems[i] = ret.req[i]
              /\ taskRes[i].err = NoError =>
                    ret.result.Results[i] = taskRes[i].result

\* C3 happens: a batch returned whose second task reported before the first,
\* the two verdicts being different
C3_Witness ==
    /\ BatchReturned
    /\ overtaken
    /\ Len(bItems) >= 2
    /\ taskRes[1].err = NoError
    /\ taskRes[2].err = NoError
    /\ taskRes[1].result # taskRes[2].result

HasError(extra) == \E kv \in extra : kv[1] = "error"

\* C4: if the evaluation of item i fails, results[i] is a Pass verdict whose
\* Extra["error"] is set, the list still has one entry per processed item, and
\* every other index holds its own item's verdict.
C4_FailedItemIsPassPlaceholder ==
    BatchReturned =>
        /\ DOMAIN ret.result.Results = DOMAIN bItems
        /\ \A i \in DOMAIN bItems :
              IF taskRes[i].err # NoError
              THEN /\ ret.result.Results[i].Result = ResultTypePass
                   /\ HasError(ret.result.Results[i].Extra)
              ELSE /\ ret.result.Results[i] = taskRes[i].result
                   /\ ~HasError(ret.result.Results[i].Extra)

\* C4 happens: a batch returned in which one item failed and a later one was
\* evaluated to a verdict with risks
C4_Witness ==
    /\ BatchReturned
    /\ \E i, j \in DOMAIN bItems :
          /\ i < j
          /\ taskRes[i].err # NoError
          /\ taskRes[j].err = NoError
          /\ taskRes[j].result.Risks # <<>>

(***************************************************************************)
(* SpecBatch: BatchCheckContent calls alone, on a service without remote   *)
(* detectors.  The Go scheduler runs every goroutine that can take a step: *)
(* the tasks, the closer and the collector are weakly fair.  CheckContent  *)
(* itself returns: the detectors are local and the cache client has        *)
(* timeouts.                                                               *)
(***************************************************************************)
InitBatch ==
    /\ Init
    /\ detectors = registeredDetectors(ConfigLocal, FALSE, FALSE)

NextBatch ==
    \/ \E items \in BatchInputs, id \in BatchIDs : BatchStart(items, id)
    \/ \E i \in DOMAIN taskPc : TaskLookup(i)
    \/ \E i \in DOMAIN taskPc : TaskEval(i)
    \/ \E i \in DOMAIN taskPc : TaskSend(i)
    \/ CloseChannel
    \/ Collect
    \/ \E id \in BatchIDs : BatchReturn(id)

\* task i is inside the evaluation of its CheckContent call
AtEval(i) == bPhase = "running" /\ i \in DOMAIN taskPc /\ taskPc[i] = "eval"

\* TaskEval(i) is enabled exactly when AtEval(i) holds (the pipeline always
\* yields a result) and it alone moves the task on, so its weak fairness is
\* []<>~AtEval(i)
FairBatch ==
    /\ \A i \in 1..MaxBatch :
          /\ WF_vars(TaskLookup(i))
          /\ []<>~AtEval(i)
          /\ WF_vars(TaskSend(i))
    /\ WF_vars(CloseChannel)
    /\ WF_vars(Collect)
    /\ WF_vars(\E id \in BatchIDs : BatchReturn(id))

SpecBatch == InitBatch /\ [][NextBatch]_vars /\ FairBatch

\* the reports the collector has taken from the channel so far
Reported == DOMAIN resultMap \cup {i \in DOMAIN taskRes : taskPc[i] = "done"
                                       /\ taskRes[i].err # NoError
                                       /\ \A k \in DOMAIN resultCh :
                                             resultCh[k].index # i}

\* while the call runs a task that reports finds room in the channel, and the
\* call has returned only with every task done and every report collected
C5_Safe ==
    /\ bPhase = "running" =>
          \A i \in DOMAIN taskPc :
              taskPc[i] = "send" => Len(resultCh) < Len(bItems)
    /\ bPhase = "returned" =>
          /\ \A i \in DOMAIN taskPc : taskPc[i] = "done"
          /\ resultCh = <<>>
          /\ Reported = DOMAIN bItems

\* C5: BatchCheckContent returns only after every dispatched task has
\* reported; a failing or slow task never prevents sibling tasks from
\* completing, there is no early exit on the first failure, no task blocks
\* when reporting, and the call returns once all checks have finished.
C5_BatchWaitsForAllTasks ==
    /\ []C5_Safe
    /\ \A i \in 1..MaxBatch :
          (bPhase = "running" /\ i \in DOMAIN taskPc) ~>
              (i \in DOMAIN taskPc /\ taskPc[i] = "done")
    /\ (bPhase = "running") ~> (bPhase = "returned")

\* C5 happens: a batch returned in which the first task failed and the
\* sibling after it completed and was collected
C5_Witness ==
    /\ bPhase = "returned"
    /\ lastError # NoError
    /\ Len(bItems) >= 2
    /\ taskRes[1].err # NoError
    /\ 2 \in DOMAIN resultMap

(***************************************************************************)
(* SpecLatch: the three remote-signal detectors on their own, each used by *)
(* concurrent Detect calls.  The detectors take no lock (the mutex field   *)
(* of NLPDetector and SemanticNLPDetector is never used), so the read of   *)
(* fallbackMode on entry, the network call and the write of fallbackMode   *)
(* are separate steps that interleave freely with those of other calls.    *)
(***************************************************************************)
MaxCalls == 2
MaxNet == 3

CallIds == 1..MaxCalls
LatchedVariants == {"nlp", "semantic_nlp"}
Variants == LatchedVariants \cup {"ai"}

\* the request of the calls: harmful words, sent after another user's
\* rejection
LatchContexts ==
    {CheckContext(TextInsult, "u1", "post",
                  <<[Content |-> TextStop, UserID |-> "u2"]>>)}

\* NewNLPDetector: testConnection is one network call; when it fails the
\* detector is returned in fallback mode (together with an error)
NewNLPDetector(probeOK) ==
    [probed |-> TRUE, probeOK |-> probeOK, fallbackMode |-> ~probeOK]

\* NewSemanticNLPDetector: the same
NewSemanticNLPDetector(probeOK) ==
    [probed |-> TRUE, probeOK |-> probeOK, fallbackMode |-> ~probeOK]

\* NewAIDetector: no probe, and the struct has no fallback flag
NewAIDetector == [probed |-> FALSE]

NoCall ==
    [pc |-> "idle", det |-> "", ctx |-> CheckContext(TextEmpty, "", "", <<>>),
     sawFallback |-> FALSE, network |-> FALSE, failed |-> FALSE,
     out |-> Out(<<>>)]

InitLatch ==
    /\ \E nlpOK \in BOOLEAN, llmOK \in BOOLEAN :
          latch = [d \in Variants |->
                     CASE d = "nlp" -> NewNLPDetector(nlpOK)
                       [] d = "semantic_nlp" -> NewSemanticNLPDetector(llmOK)
                       [] OTHER -> NewAIDetector]
    /\ calls = [c \in CallIds |-> NoCall]
    /\ netCalls = [d \in Variants |-> IF d \in LatchedVariants THEN 1 ELSE 0]
    /\ cache = <<>>
    /\ detectors = {"sensitive", "spam", "harassment", "semantic"}
    /\ fallbackMode = [d \in {"nlp", "semantic_nlp"} |-> FALSE]
    /\ ret = NoReturn
    /\ stream = StreamClosed
    /\ WordsIdle
    /\ RulesIdle
    /\ BatchIdle

\* Detect of NLPDetector / SemanticNLPDetector, "if d.fallbackMode { return
\* d.fallbackDetect(ctx) }": the flag is read; in fallback mode the call
\* returns the local heuristics' risks at once
DetectEnter(c, d, ctx) ==
    /\ calls[c].pc = "idle"
    /\ d \in LatchedVariants
    /\ calls' = [calls EXCEPT ![c] =
                    IF latch[d].fallbackMode
                    THEN [NoCall EXCEPT !.pc = "returned", !.det = d,
                                        !.ctx = ctx, !.sawFallback = TRUE,
                                        !.out = fallbackDetect(ctx)]
                    ELSE [NoCall EXCEPT !.pc = "analysing", !.det = d,
                                        !.ctx = ctx]]
    /\ UNCHANGED <<latch, netCalls, svcVars, wordVars, ruleVars, batchVars>>

\* a faulty variant of DetectAnalyse: a successful analysis switches the
\* detector back to live mode
DetectAnalyseRecovering(c, analysis) ==
    /\ calls[c].pc = "analysing"
    /\ calls[c].det \in LatchedVariants
    /\ netCalls[calls[c].det] < MaxNet
    /\ netCalls' = [netCalls EXCEPT ![calls[c].det] = @ + 1]
    /\ calls' = [calls EXCEPT ![c] =
                    IF analysis.ok
                    THEN [@ EXCEPT !.pc = "returned", !.network = TRUE,
                                   !.out = analysisRisks(calls[c].ctx, analysis)]
                    ELSE [@ EXCEPT !.pc = "failed", !.network = TRUE,
                                   !.failed = TRUE]]
    /\ latch' = IF analysis.ok
                THEN [latch EXCEPT ![calls[c].det].fallbackMode = FALSE]
                ELSE latch
    /\ UNCHANGED <<svcVars, wordVars, ruleVars, batchVars>>

\* "result, err := d.analyzeContent(...)": the network call and, when it
\* succeeds, the conversion of the result into risks
DetectAnalyse(c, analysis) ==
    /\ calls[c].pc = "analysing"
    /\ calls[c].det \in LatchedVariants
    /\ netCalls[calls[c].det] < MaxNet
    /\ netCalls' = [netCalls EXCEPT ![calls[c].det] = @ + 1]
    /\ calls' = [calls EXCEPT ![c] =
                    IF analysis.ok
                    THEN [@ EXCEPT !.pc = "returned", !.network = TRUE,
                                   !.out = analysisRisks(calls[c].ctx, analysis)]
                    ELSE [@ EXCEPT !.pc = "failed", !.network = TRUE,
                                   !.failed = TRUE]]
    /\ UNCHANGED <<latch, svcVars, wordVars, ruleVars, batchVars>>

\* a faulty variant of DetectFallBack: the flag is not set
DetectFallBackOnce(c) ==
    /\ calls[c].pc = "failed"
    /\ calls' = [calls EXCEPT ![c] =
                    [@ EXCEPT !.pc = "returned",
                              !.out = fallbackDetect(calls[c].ctx)]]
    /\ UNCHANGED <<latch, netCalls, svcVars, wordVars, ruleVars, batchVars>>

\* "if err != nil { d.fallbackMode = true; return d.fallbackDetect(ctx) }"
DetectFallBack(c) ==
    /\ calls[c].pc = "failed"
    /\ latch' = [latch EXCEPT ![calls[c].det].fallbackMode = TRUE]
    /\ calls' = [calls EXCEPT ![c] =
                    [@ EXCEPT !.pc = "returned",
                              !.out = fallbackDetect(calls[c].ctx)]]
    /\ UNCHANGED <<netCalls, svcVars, wordVars, ruleVars, batchVars>>

\* AIDetector.Detect up to the HTTP call: no flag is read
AIDetectEnter(c, ctx) ==
    /\ calls[c].pc = "idle"
    /\ calls' = [calls EXCEPT ![c] =
                    [NoCall EXCEPT !.pc = "analysing", !.det = "ai", !.ctx = ctx]]
    /\ UNCHANGED <<latch, netCalls, svcVars, wordVars, ruleVars, batchVars>>

\* AIDetector.Detect from the HTTP call on: a failure is returned as an error
AIDetectCall(c, resp) ==
    /\ calls[c].pc = "analysing"
    /\ calls[c].det = "ai"
    /\ netCalls["ai"] < MaxNet
    /\ netCalls' = [netCalls EXCEPT !["ai"] = @ + 1]
    /\ calls' = [calls EXCEPT ![c] =
                    [@ EXCEPT !.pc = "returned", !.network = TRUE,
                              !.failed = AIDetect(calls[c].ctx, resp).err,
                              !.out = AIDetect(calls[c].ctx, resp)]]
    /\ UNCHANGED <<latch, svcVars, wordVars, ruleVars, batchVars>>

\* the caller takes the returned value; the goroutine can make another call
DetectReturn(c) ==
    /\ calls[c].pc = "returned"
    /\ calls' = [calls EXCEPT ![c] = NoCall]
    /\ UNCHANGED <<latch, netCalls, svcVars, wordVars, ruleVars, batchVars>>

NextLatch ==
    \/ \E c \in CallIds, d \in LatchedVariants, ctx \in LatchContexts :
          DetectEnter(c, d, ctx)
    \/ \E c \in CallIds, analysis \in AnalysisOutcomes : DetectAnalyse(c, analysis)
    \/ \E c \in CallIds : DetectFallBack(c)
    \/ \E c \in CallIds, ctx \in LatchContexts : AIDetectEnter(c, ctx)
    \/ \E c \in CallIds, resp \in AIResponses : AIDetectCall(c, resp)
    \/ \E c \in CallIds : DetectReturn(c)

SpecLatch == InitLatch /\ [][NextLatch]_vars

\* a call that read fallbackMode = true on entry has returned the local
\* heuristics' risks and has made no network call
C6_FallbackCallsStayLocal ==
    \A c \in CallIds :
        calls[c].sawFallback =>
            /\ calls[c].pc = "returned"
            /\ ~calls[c].network
            /\ calls[c].out = fallbackDetect(calls[c].ctx)

\* C6: for NLPDetector and SemanticNLPDetector, in every interleaving of
\* concurrent Detect calls, fallbackMode once true is never reset to false,
\* and every Detect call that starts in fallback mode returns only the
\* fallback heuristics' risks without attempting a network call.
C6_FallbackIsOneWayLatch ==
    /\ []C6_FallbackCallsStayLocal
    /\ [][\A d \in LatchedVariants :
             latch[d].fallbackMode => latch'[d].fallbackMode]_vars

\* C6 happens: a detector whose probe succeeded was switched to fallback mode
\* by a failed live call; a call that started afterwards returned the local
\* heuristics' risks while a call that started before is still analysing
C6_Witness ==
    \E c1, c2 \in CallIds :
        /\ calls[c1].sawFallback
        /\ calls[c1].out.risks # <<>>
        /\ latch[calls[c1].det].probeOK
        /\ calls[c2].det = calls[c1].det
        /\ calls[c2].pc = "analysing"

\* C7 as stated: each of the three variants probes the endpoint at
\* construction, keeps a fallback flag, and a failed live call switches it
\* into fallback mode, the call degrading to the local heuristics.
C7_AllThreeLatch ==
    /\ \A d \in Variants :
          /\ latch[d].probed
          /\ "fallbackMode" \in DOMAIN latch[d]
    /\ \A c \in CallIds :
          (calls[c].pc = "returned" /\ calls[c].failed) =>
              /\ ~calls[c].out.err
              /\ calls[c].out = fallbackDetect(calls[c].ctx)

\* C7, amended: NLPDetector and SemanticNLPDetector probe the endpoint at
\* construction and start in fallback mode if the probe fails, and a failed
\* live call switches them into fallback mode, the call returning the local
\* heuristics' risks.  AIDetector makes no probe and keeps no fallback flag:
\* every call contacts the service and a failed call returns an error.
C7_TwoVariantsLatch ==
    /\ \A d \in LatchedVariants :
          /\ latch[d].probed
          /\ ~latch[d].probeOK => latch[d].fallbackMode
    /\ \A c \in CallIds :
          (calls[c].pc = "returned" /\ calls[c].failed
             /\ calls[c].det \in LatchedVariants) =>
              /\ latch[calls[c].det].fallbackMode
              /\ ~calls[c].out.err
              /\ calls[c].out = fallbackDetect(calls[c].ctx)
    /\ ~latch["ai"].probed
    /\ "fallbackMode" \notin DOMAIN latch["ai"]
    /\ \A c \in CallIds :
          (calls[c].pc = "returned" /\ calls[c].det = "ai") =>
              /\ calls[c].network
              /\ calls[c].failed => calls[c].out = Fail

\* C7 happens: a failed live call of a latched variant returned the local
\* heuristics' risks and left the detector in fallback mode, and a failed
\* call of the AI detector returned an error
C7_Witness ==
    \E c1, c2 \in CallIds :
        /\ calls[c1].pc = "returned"
        /\ calls[c1].det \in LatchedVariants
        /\ calls[c1].failed
        /\ calls[c1].out.risks # <<>>
        /\ latch[calls[c1].det].probeOK
        /\ calls[c2].pc = "returned"
        /\ calls[c2].det = "ai"
        /\ calls[c2].failed
        /\ calls[c2].out.err

(***************************************************************************)
(* SpecWords: the SensitiveWords store.  AddWord, RemoveWord, SetWordList  *)
(* and AddFilePath run under sw.mu and are single steps.  Update reads     *)
(* sw.filePaths and the files without the lock, one file per step, and     *)
(* takes the lock only for the replacement.                                *)
(***************************************************************************)
MaxPaths == 2

Paths == {"config/sensitive_words.txt", "extra.txt"}

\* a file that cannot be opened, and the readable files
Unreadable == [ok |-> FALSE, lines |-> <<>>]
File(lines) == [ok |-> TRUE, lines |-> lines]
FileContents ==
    {Unreadable,
     File(<<>>),
     File(<<"", "# comment", "   ">>),
     File(<<"badword">>),
     File(<<" slur ", " # indented comment", "badword">>)}

\* strings.TrimSpace on the lines of the files
TrimSpace(line) ==
    CASE line = " slur " -> "slur"
      [] line = "   " -> ""
      [] line = " # indented comment" -> "# indented comment"
      [] OTHER -> line

\* strings.HasPrefix(word, "#")
HasPrefixHash(word) == word \in {"# comment", "# indented comment"}

RECURSIVE scanLines(_, _, _)
\* the scanner loop of loadFromFile from line k on
scanLines(lines, k, acc) ==
    IF k > Len(lines) THEN acc
    ELSE LET word == TrimSpace(lines[k])
         IN  IF word = "" \/ HasPrefixHash(word)
             THEN scanLines(lines, k + 1, acc)
             ELSE scanLines(lines, k + 1, acc \cup {word})

\* loadFromFile: the word map after reading the file (unchanged when the file
\* cannot be opened)
loadFromFile(file, newWords) ==
    IF ~file.ok THEN newWords ELSE scanLines(file.lines, 1, newWords)

NoUpdate ==
    [pc |-> "idle", paths |-> <<>>, k |-> 0, newWords |-> {}, outcome |-> "none"]

RECURSIVE loadAll(_, _, _, _)
\* Update's loop run without interruption
loadAll(paths, fs, k, acc) ==
    IF k > Len(paths) THEN acc
    ELSE loadAll(paths, fs, k + 1, loadFromFile(fs[paths[k]], acc))

\* NewSensitiveWords: an empty map, the default path, one Update
InitWords ==
    /\ filePaths = <<"config/sensitive_words.txt">>
    /\ files \in [Paths -> FileContents]
    /\ words = loadAll(filePaths, files, 1, {})
    /\ upd = NoUpdate
    /\ swMu = [writer |-> "none", readers |-> {}]
    /\ swCalls = <<>>
    /\ cache = <<>>
    /\ detectors = {"sensitive", "spam", "harassment", "semantic"}
    /\ fallbackMode = [d \in {"nlp", "semantic_nlp"} |-> FALSE]
    /\ ret = NoReturn
    /\ stream = StreamClosed
    /\ RulesIdle
    /\ BatchIdle
    /\ LatchIdle

\* Update: "newWords := make(map[string]bool)" and the start of the range
\* over sw.filePaths
UpdateStart ==
    /\ upd.pc = "idle"
    /\ upd' = [pc |-> "load", paths |-> filePaths, k |-> 1, newWords |-> {},
               outcome |-> "none"]
    /\ UNCHANGED <<words, filePaths, files, svcVars, ruleVars, batchVars, latchVars,
                   swMu, swCalls>>

\* Update: one iteration of the loop (a file that cannot be read is skipped)
UpdateLoad ==
    /\ upd.pc = "load"
    /\ upd.k <= Len(upd.paths)
    /\ upd' = [upd EXCEPT !.k = @ + 1,
                          !.newWords = loadFromFile(files[upd.paths[upd.k]], @)]
    /\ UNCHANGED <<words, filePaths, files, svcVars, ruleVars, batchVars, latchVars,
                   swMu, swCalls>>

\* a faulty variant of UpdateSwap: the candidate replaces the set even when
\* it is empty
UpdateSwapAlways ==
    /\ upd.pc = "load"
    /\ upd.k > Len(upd.paths)
    /\ words' = upd.newWords
    /\ upd' = [upd EXCEPT !.pc = "idle", !.outcome = "replaced"]
    /\ UNCHANGED <<filePaths, files, svcVars, ruleVars, batchVars, latchVars,
                   swMu, swCalls>>

\* Update: "if len(newWords) > 0 { Lock; sw.words = newWords; Unlock }"
UpdateSwap ==
    /\ upd.pc = "load"
    /\ upd.k > Len(upd.paths)
    /\ IF upd.newWords # {}
       THEN /\ words' = upd.newWords
            /\ upd' = [upd EXCEPT !.pc = "idle", !.outcome = "replaced"]
       ELSE /\ UNCHANGED words
            /\ upd' = [upd EXCEPT !.pc = "idle", !.outcome = "kept"]
    /\ UNCHANGED <<filePaths, files, svcVars, ruleVars, batchVars, latchVars,
                   swMu, swCalls>>

\* a faulty variant of AddWord: the result cache is emptied with the change
AddWordInvalidating(word) ==
    /\ words' = IF word = "" THEN words ELSE words \cup {word}
    /\ cache' = <<>>
    /\ UNCHANGED <<filePaths, files, upd, detectors, fallbackMode, ret, stream,
                   ruleVars, batchVars, latchVars, swMu, swCalls>>

\* AddWord
AddWord(word) ==
    /\ words' = IF word = "" THEN words ELSE words \cup {word}
    /\ UNCHANGED <<filePaths, files, upd, svcVars, ruleVars, batchVars, latchVars,
                   swMu, swCalls>>

\* RemoveWord
RemoveWord(word) ==
    /\ words' = words \ {word}
    /\ UNCHANGED <<filePaths, files, upd, svcVars, ruleVars, batchVars, latchVars,
                   swMu, swCalls>>

\* SetWordList
SetWordList(list) ==
    /\ words' = {list[i] : i \in DOMAIN list} \ {""}
    /\ UNCHANGED <<filePaths, files, upd, svcVars, ruleVars, batchVars, latchVars,
                   swMu, swCalls>>

\* AddFilePath
AddFilePath(path) ==
    /\ Len(filePaths) < MaxPaths
    /\ filePaths' = Append(filePaths, path)
    /\ UNCHANGED <<words, files, upd, svcVars, ruleVars, batchVars, latchVars,
                   swMu, swCalls>>

\* the environment rewrites, removes or restores a file
FileChange(path, content) ==
    /\ files[path] # content
    /\ files' = [files EXCEPT ![path] = content]
    /\ UNCHANGED <<words, filePaths, upd, svcVars, ruleVars, batchVars, latchVars,
                   swMu, swCalls>>

WordLists == {<<>>, <<"slur", "">>}

NextWords ==
    \/ UpdateStart
    \/ UpdateLoad
    \/ UpdateSwap
    \/ \E word \in WordUniverse \cup {""} : AddWord(word)
    \/ \E word \in WordUniverse : RemoveWord(word)
    \/ \E list \in WordLists : SetWordList(list)
    \/ \E path \in Paths : AddFilePath(path)
    \/ \E path \in Paths, content \in FileContents : FileChange(path, content)

SpecWords == InitWords /\ [][NextWords]_vars

\* the step in which an Update call ends
UpdateEnds == upd.pc = "load" /\ upd'.pc = "idle"

\* C8: Update replaces the active word set only if the candidate set built
\* from the configured files is non-empty; when every source is unreadable or
\* yields only blank and comment lines the word set is left unchanged, after
\* any number of Update calls.
C8_UpdateKeepsSetOnEmptyCandidate ==
    [][UpdateEnds =>
          /\ words' # words => (upd.newWords # {} /\ words' = upd.newWords)
          /\ upd.newWords = {} => (words' = words /\ upd'.outcome = "kept")
          /\ upd.newWords # {} => words' = upd.newWords]_vars

\* C8 happens: an Update call over files that are all unreadable or hold only
\* blank and comment lines has ended and the word set, loaded earlier, is
\* still there
C8_Witness ==
    /\ upd.pc = "idle"
    /\ upd.outcome = "kept"
    /\ Len(filePaths) = MaxPaths
    /\ \E p \in Paths : ~files[p].ok
    /\ \E p \in Paths : files[p].ok /\ files[p].lines # <<>>
    /\ \A p \in Paths : loadFromFile(files[p], {}) = {}
    /\ words = {"slur", "badword"}

(***************************************************************************)
(* SpecRules: the RuleEngine under concurrent Evaluate calls and a         *)
(* loadRules call.  In this repository loadRules is called by              *)
(* NewRuleEngine only; here it can also run again on the live engine, the  *)
(* situation its lock is there for.  e.mu is a sync.RWMutex: [writer,      *)
(* readers].  Every statement that touches e.ruleSet or e.initialized is a *)
(* step of its own.                                                        *)
(***************************************************************************)
MaxEvals == 2

EvalIds == 1..MaxEvals

\* the arguments of the Evaluate calls: a text with a sensitive word that no
\* detector reported, and a text sent after a rejection that the spam
\* detector reported
EvalInputs ==
    {[ctx |-> CheckContext(TextWord, "u1", "post", <<>>), existing |-> <<>>],
     [ctx |-> CheckContext(TextPromo, "u1", "post",
                           <<[Content |-> TextStop, UserID |-> "u2"]>>),
      existing |-> <<NewRiskItem(RiskTypeSpam, 50, "phone number")>>]}

\* NewRuleEngine returned an engine: its loadRules succeeded
InitRules ==
    /\ ruleFile \in {f \in RuleFiles : f.readable /\ f.valid}
    /\ ruleSet = buildRuleSet(ruleFile)
    /\ initialized = TRUE
    /\ mu = [writer |-> FALSE, readers |-> {}]
    /\ loader = NoLoad
    /\ evals = [e \in EvalIds |-> NoEval]
    /\ cache = <<>>
    /\ detectors = {"sensitive", "spam", "harassment", "semantic"}
    /\ fallbackMode = [d \in {"nlp", "semantic_nlp"} |-> FALSE]
    /\ ret = NoReturn
    /\ stream = StreamClosed
    /\ WordsIdle
    /\ BatchIdle
    /\ LatchIdle

\* the rule file is edited, removed or broken
RuleFileChange(content) ==
    /\ ruleFile # content
    /\ ruleFile' = content
    /\ UNCHANGED <<ruleSet, initialized, mu, loader, evals, svcVars, wordVars,
                   batchVars, latchVars>>

\* a faulty variant of LoadLock: loadRules does not take the lock
LoadWithoutLock ==
    /\ loader.pc = "idle"
    /\ loader' = [NoLoad EXCEPT !.pc = "read", !.before = ruleSet]
    /\ UNCHANGED <<ruleSet, initialized, ruleFile, mu, evals, svcVars, wordVars,
                   batchVars, latchVars>>

\* loadRules: e.mu.Lock()
LoadLock ==
    /\ loader.pc = "idle"
    /\ ~mu.writer
    /\ mu.readers = {}
    /\ mu' = [mu EXCEPT !.writer = TRUE]
    /\ loader' = [NoLoad EXCEPT !.pc = "read", !.before = ruleSet]
    /\ UNCHANGED <<ruleSet, initialized, ruleFile, evals, svcVars, wordVars,
                   batchVars, latchVars>>

\* loadRules: ioutil.ReadFile and json.Unmarshal; on an error the function
\* returns (the deferred Unlock runs) before e.ruleSet is touched
LoadRead ==
    /\ loader.pc = "read"
    /\ IF ruleFile.readable /\ ruleFile.valid
       THEN /\ loader' = [loader EXCEPT !.pc = "assign", !.data = ruleFile]
            /\ UNCHANGED mu
       ELSE /\ loader' = [loader EXCEPT !.pc = "idle", !.outcome = "failed"]
            /\ mu' = [mu EXCEPT !.writer = FALSE]
    /\ UNCHANGED <<ruleSet, initialized, ruleFile, evals, svcVars, wordVars,
                   batchVars, latchVars>>

\* loadRules: "e.ruleSet = ruleSet"
LoadAssign ==
    /\ loader.pc = "assign"
    /\ ruleSet' = buildRuleSet(loader.data)
    /\ loader' = [loader EXCEPT !.pc = "init"]
    /\ UNCHANGED <<initialized, ruleFile, mu, evals, svcVars, wordVars,
                   batchVars, latchVars>>

\* loadRules: "e.initialized = true" and the return (deferred Unlock)
LoadFinish ==
    /\ loader.pc = "init"
    /\ initialized' = TRUE
    /\ mu' = [mu EXCEPT !.writer = FALSE]
    /\ loader' = [loader EXCEPT !.pc = "idle", !.outcome = "loaded"]
    /\ UNCHANGED <<ruleSet, ruleFile, evals, svcVars, wordVars, batchVars,
                   latchVars>>

\* Evaluate: e.mu.RLock()
EvalRLock(e, in) ==
    /\ evals[e].pc = "idle"
    /\ ~mu.writer
    /\ mu' = [mu EXCEPT !.readers = @ \cup {e}]
    /\ evals' = [evals EXCEPT ![e] =
                    [NoEval EXCEPT !.pc = "check", !.ctx = in.ctx,
                                   !.existing = in.existing]]
    /\ UNCHANGED <<ruleSet, initialized, ruleFile, loader, svcVars, wordVars,
                   batchVars, latchVars>>

\* Evaluate: "if !e.initialized { return nil, error }"
EvalCheck(e) ==
    /\ evals[e].pc = "check"
    /\ IF initialized
       THEN /\ evals' = [evals EXCEPT ![e].pc = "len"]
            /\ UNCHANGED mu
       ELSE /\ evals' = [evals EXCEPT ![e].pc = "done", ![e].err = TRUE]
            /\ mu' = [mu EXCEPT !.readers = @ \ {e}]
    /\ UNCHANGED <<ruleSet, initialized, ruleFile, loader, svcVars, wordVars,
                   batchVars, latchVars>>

\* sortRulesByPriority: "make([]*Rule, 0, len(e.ruleSet.Rules))"
EvalLen(e) ==
    /\ evals[e].pc = "len"
    /\ evals' = [evals EXCEPT ![e].pc = "range",
                              ![e].seenLen = Cardinality(DOMAIN ruleSet.Rules)]
    /\ UNCHANGED <<ruleSet, initialized, ruleFile, mu, loader, svcVars, wordVars,
                   batchVars, latchVars>>

\* sortRulesByPriority: "for _, rule := range e.ruleSet.Rules"
EvalRange(e) ==
    /\ evals[e].pc = "range"
    /\ evals' = [evals EXCEPT ![e].pc = "loop", ![e].seen = ruleSet]
    /\ UNCHANGED <<ruleSet, initialized, ruleFile, mu, loader, svcVars, wordVars,
                   batchVars, latchVars>>

\* Evaluate: the sort, the rule loop and the return (deferred RUnlock)
EvalFinish(e) ==
    /\ evals[e].pc = "loop"
    /\ \E sortedRules \in SortedRules(evals[e].seen) :
          evals' = [evals EXCEPT
                       ![e].pc = "done",
                       ![e].res = Evaluate([ruleSet |-> evals[e].seen,
                                            initialized |-> TRUE],
                                           sortedRules, evals[e].ctx,
                                           evals[e].existing).res]
    /\ mu' = [mu EXCEPT !.readers = @ \ {e}]
    /\ UNCHANGED <<ruleSet, initialized, ruleFile, loader, svcVars, wordVars,
                   batchVars, latchVars>>

\* the caller takes the result; the goroutine can call Evaluate again
EvalReturn(e) ==
    /\ evals[e].pc = "done"
    /\ evals' = [evals EXCEPT ![e] = NoEval]
    /\ UNCHANGED <<ruleSet, initialized, ruleFile, mu, loader, svcVars, wordVars,
                   batchVars, latchVars>>

NextRules ==
    \/ \E content \in RuleFiles : RuleFileChange(content)
    \/ LoadLock
    \/ LoadRead
    \/ LoadAssign
    \/ LoadFinish
    \/ \E e \in EvalIds, in \in EvalInputs : EvalRLock(e, in)
    \/ \E e \in EvalIds : EvalCheck(e)
    \/ \E e \in EvalIds : EvalLen(e)
    \/ \E e \in EvalIds : EvalRange(e)
    \/ \E e \in EvalIds : EvalFinish(e)
    \/ \E e \in EvalIds : EvalReturn(e)

SpecRules == InitRules /\ [][NextRules]_vars

(***************************************************************************)
(* Claims about the rule engine.                                           *)
(***************************************************************************)
\* an Evaluate call that has read e.ruleSet and not returned yet
Reading(e) == evals[e].pc \in {"range", "loop"}

\* C9: whatever way a rule-set load interleaves with Evaluate calls, each
\* Evaluate call reads one whole version of the rule set: the length it read
\* and the rules, actions and categories it ranged over are those of the
\* active rule set, which no load replaces while the call is reading; and a
\* load that failed to read or parse the file left the active rule set, and
\* the initialized flag, as they were when it started.
C9_EvaluateSeesWholeRuleSet ==
    /\ \A e \in EvalIds :
          /\ Reading(e) =>
                /\ evals[e].seenLen = Cardinality(DOMAIN ruleSet.Rules)
                /\ loader.pc \notin {"assign", "init"}
          /\ evals[e].pc \in {"loop", "done"} /\ ~evals[e].err =>
                /\ evals[e].seenLen = Cardinality(DOMAIN evals[e].seen.Rules)
                /\ \E f \in RuleFiles :
                      f.readable /\ f.valid /\ evals[e].seen = buildRuleSet(f)
          /\ evals[e].pc = "loop" => evals[e].seen = ruleSet
    /\ loader.outcome = "failed" =>
          ruleSet = loader.before /\ initialized

\* a load has replaced the rule set and is about to finish, after an Evaluate
\* call that read the whole old version and before one that waits for the lock
C9_Witness ==
    /\ loader.pc = "init"
    /\ ruleSet # loader.before
    /\ \E e \in EvalIds :
          /\ evals[e].pc = "done"
          /\ evals[e].seen = loader.before
          /\ evals[e].seenLen = Cardinality(DOMAIN loader.before.Rules)

\* the enabled rules of a rule set whose action maps to Reject
RejectRules(rs) ==
    {id \in DOMAIN rs.Rules :
        rs.Rules[id].Enabled
        /\ getActionType(rs.Rules[id].Action) = ResultTypeReject}

\* an Evaluate call that has returned a result
Evaluated(e) == evals[e].pc = "done" /\ ~evals[e].err

\* C10 as stated: an enabled rule whose action maps to Reject makes Evaluate
\* return Result=Reject, HasExplicitResult=true and that rule's score.
C10_RejectRuleShortCircuits ==
    \A e \in EvalIds :
        Evaluated(e) /\ RejectRules(evals[e].seen) # {} =>
            /\ evals[e].res.Result = ResultTypeReject
            /\ evals[e].res.HasExplicitResult
            /\ \E id \in RejectRules(evals[e].seen) :
                  evals[e].res.Score = evals[e].seen.Rules[id].Score

\* C10, amended: evaluateRule reports no match for any rule, so Evaluate
\* never takes the early return: whatever the rule set holds, an enabled rule
\* whose action maps to Reject included, it returns Result=Pass, Score=0,
\* HasExplicitResult=false, no risk and no suggestion.
C10_NoRuleEverMatches ==
    \A e \in EvalIds :
        Evaluated(e) =>
            /\ evals[e].res.Result = ResultTypePass
            /\ evals[e].res.Score = 0
            /\ ~evals[e].res.HasExplicitResult
            /\ evals[e].res.Risks = <<>>
            /\ evals[e].res.Suggestion = ""

\* Evaluate returned Pass for a text with a sensitive word under a rule set
\* whose enabled sensitive-word rule blocks
C10_Witness ==
    \E e \in EvalIds :
        /\ Evaluated(e)
        /\ evals[e].ctx.Content = TextWord
        /\ "sensitive_words" \in RejectRules(evals[e].seen)
        /\ evals[e].res.Result = ResultTypePass

(***************************************************************************)
(* SpecCache: CheckContent calls by several users and scenes against a     *)
(* cache whose entries expire, get corrupted, and whose backend can fail   *)
(* on any Get and any Set.  The detectors are the local ones.              *)
(***************************************************************************)
CacheScenes == {"post", "chat"}
CacheRequests ==
    [Content : {TextEmpty, TextClean, TextPromo, TextWord}, UserID : Users,
     Scene : CacheScenes]

InitCache ==
    /\ cache = <<>>
    /\ detectors = registeredDetectors(ConfigLocal, FALSE, FALSE)
    /\ fallbackMode = [d \in {"nlp", "semantic_nlp"} |-> FALSE]
    /\ ret = NoReturn
    /\ stream = StreamClosed
    /\ WordsIdle
    /\ RulesIdle
    /\ BatchIdle
    /\ LatchIdle

NextCache ==
    \/ \E req \in CacheRequests : CheckContent(req)
    \/ \E key \in DOMAIN cache : CacheExpire(key)
    \/ \E key \in DOMAIN cache : CacheCorrupt(key)

SpecCache == InitCache /\ [][NextCache]_vars

\* the request of the call that returned last, and its cache key
LastRequest ==
    [Content |-> ret.req.Content, UserID |-> ret.req.UserID,
     Scene |-> ret.req.Scene]
LastKey == CacheKey(ret.req.Content)

\* C11: a CheckContent call that finds a decodable entry for its content
\* (stored by an earlier call, of whatever user and scene, and not expired)
\* returns that entry with CostTime 0 and its own request id, every other
\* field as stored, and leaves the cache as it is; and a call that evaluated
\* a non-Reject verdict and stored it left an entry that decodes to exactly
\* the verdict it returned.
C11_HitReturnsCachedVerdict ==
    [][ret' # ret /\ ret'.op = "CheckContent" /\ ret'.err = NoError =>
          /\ ret'.hit =>
                /\ LastKey' \in DOMAIN cache
                /\ Unmarshal(cache[LastKey']).ok
                /\ \E now \in Times :
                      ret'.result =
                        [Unmarshal(cache[LastKey']).result EXCEPT
                            !.RequestID = RequestID("req", now, ret'.req.UserID),
                            !.CostTime = 0]
                /\ cache' = cache
          /\ ~ret'.hit /\ cache' # cache =>
                /\ ret'.result.Result # ResultTypeReject
                /\ Unmarshal(cache'[LastKey']) =
                      [ok |-> TRUE, result |-> ret'.result]]_vars

\* u2's call was answered from the entry u1's call stored: same verdict,
\* CostTime 0 instead of the stored 5, u2's request id
C11_Witness ==
    /\ ret.op = "CheckContent"
    /\ ret.hit
    /\ ret.req.UserID = "u2"
    /\ LastKey \in DOMAIN cache
    /\ Unmarshal(cache[LastKey]).ok
    /\ Unmarshal(cache[LastKey]).result.RequestID = RequestID("req", 1, "u1")
    /\ Unmarshal(cache[LastKey]).result.CostTime = 5
    /\ ret.result.CostTime = 0
    /\ ret.result.RequestID = RequestID("req", 1, "u2")
    /\ ret.result.Risks # <<>>
    /\ ret.result.Risks = Unmarshal(cache[LastKey]).result.Risks

\* the verdicts the full evaluation of the last request can return in the
\* current state
Evaluations(req) ==
    UNION {{e.result : e \in checkContentEvaluate(req, now)} : now \in Times}

\* C15: whatever the cache backend does on the Get and on the Set (client
\* absent, call failed, key not there, entry not decodable), a CheckContent
\* call on non-empty content returns no error; unless it was answered from a
\* decodable entry, it returns a verdict of the full detector and rule
\* evaluation, and it leaves the cache either as it was or with that verdict
\* stored under the content's key.
C15_CacheFailuresAreMisses ==
    [][ret' # ret /\ ret'.op = "CheckContent" /\ ret'.req.Content.len > 0 =>
          /\ ret'.err = NoError
          /\ ret'.hit =>
                LastKey' \in DOMAIN cache /\ Unmarshal(cache[LastKey']).ok
          /\ ~ret'.hit =>
                /\ ret'.result \in Evaluations(LastRequest')
                /\ \/ cache' = cache
                   \/ cache' = (LastKey' :> Marshal(ret'.result)) @@ cache]_vars

\* a call was not answered from the cache although the cache holds a
\* decodable entry for its content, stored by another user's call: its Get
\* failed and so did its Set, and it returned the evaluated verdict
C15_Witness ==
    /\ ret.op = "CheckContent"
    /\ ~ret.hit
    /\ ret.err = NoError
    /\ ret.result.Result = ResultTypeReview
    /\ LastKey \in DOMAIN cache
    /\ Unmarshal(cache[LastKey]).ok
    /\ Unmarshal(cache[LastKey]).result.RequestID[3] # ret.req.UserID

(***************************************************************************)
(* SpecPipeline: doContentCheck called on a service with the local         *)
(* detectors and the AI detector, whose service answers with an error or   *)
(* with one risk of any of the scores below.  ret.req holds the arguments  *)
(* and what the call saw: the context, the value each detector returned    *)
(* and the order in which the detector map was ranged over.                *)
(***************************************************************************)
\* "call 555-1234 badword": a phone number and the sensitive word "badword"
TextWordPromo ==
    [id |-> "call 555-1234 badword", len |-> 21, urlCount |-> 0,
     pats |-> {"phonePattern"}, kw |-> NoKw, sub |-> {"badword"}]

PipelineTexts == {TextClean, TextPromo, TextWord, TextWordPromo}

\* scores around the band edges of the threshold 70 (49 and 35)
PipelineScores == {10, 34, 35, 48, 49, 50, 69, 70}

AIScored(score) ==
    [kind |-> "body", Success |-> TRUE,
     Risks |-> <<[Type |-> "violence", Score |-> score,
                  Description |-> "ai risk"]>>]

PipelineAIResponses ==
    {AITransportError, AINotSuccess, AINoRisk}
    \cup {AIScored(score) : score \in PipelineScores}

InitPipeline ==
    /\ cache = <<>>
    /\ detectors = registeredDetectors(ConfigAI, FALSE, FALSE)
    /\ fallbackMode = [d \in {"nlp", "semantic_nlp"} |-> FALSE]
    /\ ret = NoReturn
    /\ stream = StreamClosed
    /\ WordsIdle
    /\ RulesIdle
    /\ BatchIdle
    /\ LatchIdle

\* one call of doContentCheck
DoContentCheckCall(ctx) ==
    /\ \E run \in DetectorRunsWith(ctx, PipelineAIResponses) :
          \E order \in DetectorOrders(run.outs),
             sortedRules \in SortedRules(ruleSet) :
             /\ ret' = Return("doContentCheck",
                              [ctx |-> ctx, outs |-> run.outs, order |-> order],
                              doContentCheck(ctx, order, run.outs,
                                             [ruleSet |-> ruleSet,
                                              initialized |-> initialized],
                                             sortedRules),
                              NoError, FALSE)
             /\ fallbackMode' = run.fallbackMode
    /\ UNCHANGED <<cache, detectors, stream, wordVars, ruleVars, batchVars,
                   latchVars>>

NextPipeline ==
    \E content \in PipelineTexts, userID \in Users :
        DoContentCheckCall(CheckContext(content, userID, "post", <<>>))

SpecPipeline == InitPipeline /\ [][NextPipeline]_vars

PipelineCalled == ret.op = "doContentCheck"

\* the detectors that returned an error to the last doContentCheck call
Failed == {d \in DOMAIN ret.req.outs : ret.req.outs[d].err}

\* C12: when a detector's Detect returns an error, doContentCheck visits
\* every other detector all the same and returns a verdict with a nil error;
\* the risk list holds no item of the failing detector and every item of the
\* others, as returned, in the order the detectors were visited.
C12_FailedDetectorContributesNothing ==
    PipelineCalled =>
        /\ ret.err = NoError
        /\ DOMAIN ret.req.outs = detectors
        /\ {ret.req.order[k] : k \in DOMAIN ret.req.order} = detectors
        /\ ret.result.Risks =
              Concat([k \in DOMAIN ret.req.order |->
                         IF ret.req.order[k] \in Failed THEN <<>>
                         ELSE ret.req.outs[ret.req.order[k]].risks])
        /\ ret.result.Result = Band(ret.result.RiskScore)
        /\ \A i \in DOMAIN ret.result.Risks :
              ret.result.Risks[i].Score <= ret.result.RiskScore

\* the AI detector failed, was visited before the sensitive-word and the spam
\* detector, and the verdict holds the items of these two
C12_Witness ==
    /\ PipelineCalled
    /\ ret.err = NoError
    /\ Failed = {"ai"}
    /\ \E i, j, k \in DOMAIN ret.req.order :
          /\ i < j /\ i < k
          /\ ret.req.order[i] = "ai"
          /\ ret.req.order[j] = "sensitive"
          /\ ret.req.order[k] = "spam"
    /\ Len(ret.result.Risks) = 2
    /\ ret.result.Result = ResultTypeReject

\* the order in which NewContentCheckService puts the detectors into the map
RegistrationOrder ==
    <<"sensitive", "spam", "harassment", "semantic", "nlp", "ai", "semantic_nlp">>

\* the registered detectors in registration order
RECURSIVE Registered(_)
Registered(k) ==
    IF k > Len(RegistrationOrder) THEN <<>>
    ELSE (IF RegistrationOrder[k] \in detectors THEN <<RegistrationOrder[k]>>
          ELSE <<>>) \o Registered(k + 1)

\* C13 as stated: doContentCheck visits the detectors in registration order
\* on every call, so the detectors' items stand in the risk list in that
\* order, and the first item (whose description a Reject suggestion quotes)
\* is the same on every call with the same input and detector state.
C13_ItemsInRegistrationOrder ==
    PipelineCalled =>
        /\ ret.result.Risks = AsReturned(Registered(1), ret.req.outs)
        /\ ret.result.Suggestion =
              generateSuggestion(ret.result.Result,
                                 AsReturned(Registered(1), ret.req.outs))

\* a call on "call 555-1234 badword" visited the spam detector before the
\* sensitive-word detector: the Reject suggestion quotes the phone number,
\* not the sensitive word
C13_Witness ==
    /\ PipelineCalled
    /\ ret.req.ctx.Content = TextWordPromo
    /\ Failed = {}
    /\ Len(ret.result.Risks) = 2
    /\ ret.result.Risks[1].Type = RiskTypeSpam
    /\ ret.result.Risks[2].Type = RiskTypeSensitiveWord
    /\ ret.result.Result = ResultTypeReject
    /\ ret.result.Suggestion = generateSuggestion(ResultTypeReject,
                                                  <<ret.result.Risks[1]>>)
    /\ ret.result.Suggestion # generateSuggestion(ResultTypeReject,
                                                  <<ret.result.Risks[2]>>)

(***************************************************************************)
(* Claims about StreamCheckContent (Spec).                                 *)
(***************************************************************************)
StreamCalled == stream.state \in {"open", "ended"}

\* C14 as stated: every request the stream received has its response (and
\* there is no response without a request).
C14_EveryRequestAnswered ==
    StreamCalled => stream.received = stream.sent

\* C14, amended: StreamCheckContent answers the requests one at a time, in
\* the order received: a response is sent only for the request received
\* last, it is the verdict CheckContent returns for that request, and it is
\* sent before the next request is received, so an open stream has sent one
\* response per request received.  The request whose check fails or whose
\* response cannot be sent gets no response: the call returns an error and
\* the stream ends, one response short.
C14_OneResponsePerRequestWhileOpen ==
    /\ [](StreamCalled =>
             /\ stream.state = "open" => stream.received = stream.sent
             /\ stream.sent <= stream.received
             /\ stream.received <= stream.sent + 1
             /\ stream.received = stream.sent + 1 =>
                   ret.err \in {"failed to check content",
                                "failed to send response"})
    /\ [][stream'.sent > stream.sent =>
             /\ stream.state = "open"
             /\ stream.received = stream.sent
             /\ stream'.sent = stream.sent + 1
             /\ stream'.received = stream.received + 1
             /\ \E r \in CheckContentRuns(stream'.req) :
                   r.err = NoError /\ stream'.resp = r.result]_vars

\* the stream answered its first request and ended on the second, whose
\* content was empty: two requests received, one response sent
C14_Witness ==
    /\ stream.state = "ended"
    /\ stream.received = 2
    /\ stream.sent = 1
    /\ stream.req.Content = TextEmpty
    /\ stream.resp.Result = ResultTypeReview
    /\ ret = StreamEnd("failed to check content")

(***************************************************************************)
(* Claims about input validation (Spec).                                   *)
(***************************************************************************)
\* C16: CheckContent and CheckContentWithContext called with empty content
\* return ErrEmptyContent, and BatchCheckContent called with an empty item
\* list returns ErrInvalidRequest; each returns no verdict, leaves the cache
\* and the detectors' state untouched and, for the batch, starts no task.
\* With non-empty content the single-item calls return no error.
C16_InvalidInputIsRejected ==
    [][ret' # ret =>
          /\ ret'.op \in SingleItemOps =>
                IF ret'.req.Content.len = 0
                THEN /\ ret'.err = ErrEmptyContent
                     /\ ret'.result = NilResult
                     /\ ~ret'.hit
                     /\ cache' = cache
                     /\ fallbackMode' = fallbackMode
                ELSE ret'.err = NoError /\ ret'.result # NilResult
          /\ ret'.op = "BatchCheckContent" /\ ret'.req = <<>> =>
                /\ ret'.err = ErrInvalidRequest
                /\ ret'.result = NilResult
                /\ bPhase' = "idle"
                /\ taskPc' = <<>>
                /\ cache' = cache
                /\ fallbackMode' = fallbackMode]_vars

\* CheckContentWithContext was called with empty content and context items:
\* it returned ErrEmptyContent and no verdict, the cache holding another
\* content's verdict
C16_Witness ==
    /\ ret.op = "CheckContentWithContext"
    /\ ret.req.Content = TextEmpty
    /\ ret.req.ContextItems # <<>>
    /\ ret.err = ErrEmptyContent
    /\ ret.result = NilResult
    /\ cache # <<>>

(***************************************************************************)
(* Claims about the size of a batch (Spec).                                *)
(***************************************************************************)
\* the number of items of the last batch request that are processed
Processed == IF Len(ret.req) > MaxBatch THEN MaxBatch ELSE Len(ret.req)

\* C17: of a batch of more than MaxBatch items only the first MaxBatch are
\* processed: no task exists and nothing is reported for a later index, the
\* returned list has exactly MaxBatch entries and entry i belongs to input
\* item i (it is the placeholder exactly when item i has empty content).  A
\* batch of at most MaxBatch items returns one entry per item.
C17_BatchTruncatedToMax ==
    (ret.op = "BatchCheckContent" /\ bPhase \in {"running", "returned"}) =>
        /\ bItems = [i \in 1..Processed |-> ret.req[i]]
        /\ DOMAIN taskPc = 1..Processed
        /\ \A k \in DOMAIN resultCh : resultCh[k].index \in 1..Processed
        /\ DOMAIN resultMap \subseteq 1..Processed
        /\ bPhase = "returned" =>
              /\ Len(ret.result.Results) = Processed
              /\ \A i \in 1..Processed :
                    IF ret.req[i].Content.len = 0
                    THEN ret.result.Results[i] = placeholder(ret.result.BatchID, i)
                    ELSE ret.result.Results[i] = taskRes[i].result

\* a batch of MaxBatch + 1 items returned MaxBatch entries, the last of them
\* a verdict with risks
C17_Witness ==
    /\ BatchReturned
    /\ Len(ret.req) = MaxBatch + 1
    /\ Len(ret.result.Results) = MaxBatch
    /\ ret.result.Results[1].Risks # <<>>

(***************************************************************************)
(* Claims about the score bands (SpecPipeline).                            *)
(***************************************************************************)
\* the last doContentCheck call returned through step 3: the rule engine gave
\* no explicit result
Banded == PipelineCalled /\ \E kv \in ret.result.Extra : kv[1] = "total_score"

\* the highest score among the items of a risk list, 0 for the empty list
MaxScoreOf(risks) ==
    IF risks = <<>> THEN 0
    ELSE CHOOSE m \in {risks[i].Score : i \in DOMAIN risks} :
            \A i \in DOMAIN risks : risks[i].Score <= m

\* C18: when the rule engine gives no explicit result, the verdict's score s
\* is the highest item score and the verdict is Reject if s >= T, Review if
\* 0.7T <= s < T, Warning if 0.5T <= s < 0.7T, and Pass below 0.5T, T being
\* the reject threshold; with T = 70 the scores 70, 50, 35 and 10 give
\* Reject, Review, Warning and Pass (and 49, the edge 0.7T, gives Review).
C18_BandsAreLowerEdgeInclusive ==
    Banded =>
        LET s == ret.result.RiskScore
            T == RiskScoreThreshold
        IN  /\ s = MaxScoreOf(ret.result.Risks)
            /\ s >= T <=> ret.result.Result = ResultTypeReject
            /\ (10 * s >= 7 * T /\ s < T) <=> ret.result.Result = ResultTypeReview
            /\ (2 * s >= T /\ 10 * s < 7 * T) <=>
                  ret.result.Result = ResultTypeWarning
            /\ 2 * s < T <=> ret.result.Result = ResultTypePass
            /\ T = 70 =>
                  /\ s = 70 => ret.result.Result = ResultTypeReject
                  /\ s = 50 => ret.result.Result = ResultTypeReview
                  /\ s = 49 => ret.result.Result = ResultTypeReview
                  /\ s = 35 => ret.result.Result = ResultTypeWarning
                  /\ s = 10 => ret.result.Result = ResultTypePass

\* a call whose only item scores 35, the edge 0.5T, returned Warning
C18_Witness ==
    /\ Banded
    /\ Len(ret.result.Risks) = 1
    /\ ret.result.RiskScore = 35
    /\ ret.result.Result = ResultTypeWarning

(***************************************************************************)
(* Claims about the error of a batch (Spec).                               *)
(***************************************************************************)
\* the tasks of the current batch whose CheckContent call failed
FailedTasks == {i \in DOMAIN taskRes : taskRes[i].err # NoError}

\* C19: the collector keeps the error of the failed report it took from the
\* channel last (a later failed report replaces an earlier one, a successful
\* one leaves it), and BatchCheckContent returns that error together with a
\* list of one entry per processed item, each successful item's verdict at
\* its own position; the returned error is nil exactly when no task failed.
C19_BatchReturnsLastError ==
    /\ [](BatchReturned =>
            /\ ret.err = lastError
            /\ ret.err = NoError <=> FailedTasks = {}
            /\ ret.err # NoError =>
                  \E i \in FailedTasks : ret.err = taskRes[i].err
            /\ Len(ret.result.Results) = Len(bItems)
            /\ \A i \in DOMAIN bItems \ FailedTasks :
                  ret.result.Results[i] = taskRes[i].result)
    /\ [][(bPhase = "running" /\ Len(resultCh') < Len(resultCh)) =>
             IF Head(resultCh).err # NoError
             THEN lastError' = Head(resultCh).err
             ELSE lastError' = lastError]_vars

\* a batch of two returned with an error: its first item failed and its
\* second item's verdict, reported after the failure, is in the list
C19_Witness ==
    /\ BatchReturned
    /\ ret.err = ErrEmptyContent
    /\ FailedTasks = {1}
    /\ ~overtaken
    /\ Len(ret.result.Results) = 2
    /\ ret.result.Results[2] = taskRes[2].result

(***************************************************************************)
(* SpecEvaluate: the rule loop of Evaluate on its own.  evaluateRule as     *)
(* written reports no match for any rule (C10), which leaves the loop's    *)
(* handling of a match unexercised; here the value evaluateRule returns    *)
(* for each rule is an input of the loop, drawn from the values its        *)
(* signature (bool, *RiskItem) allows: no match, a match without a risk    *)
(* item and a match with one.  ret.req holds the sorted rules and these    *)
(* values.                                                                 *)
(***************************************************************************)
EvaluateRuleSets == {RulesDefault, RulesV2, RulesScored}

\* what evaluateRule can return for a rule
MatchOutcomes(rule) ==
    {NoMatch,
     [matched |-> TRUE, riskItem |-> <<>>],
     [matched |-> TRUE,
      riskItem |-> <<[Type |-> RiskTypeUnknown, Score |-> rule.Score,
                      Description |-> rule.Name]>>]}

\* one outcome per rule of the sorted list
MatchVectors(sortedRules) ==
    {ms \in [DOMAIN sortedRules ->
                UNION {MatchOutcomes(sortedRules[k]) : k \in DOMAIN sortedRules}] :
        \A k \in DOMAIN sortedRules : ms[k] \in MatchOutcomes(sortedRules[k])}

InitEvaluate ==
    /\ cache = <<>>
    /\ detectors = registeredDetectors(ConfigLocal, FALSE, FALSE)
    /\ fallbackMode = [d \in {"nlp", "semantic_nlp"} |-> FALSE]
    /\ ret = NoReturn
    /\ stream = StreamClosed
    /\ WordsIdle
    /\ ruleSet \in EvaluateRuleSets
    /\ initialized = TRUE
    /\ ruleFile = RuleFileOf(ruleSet)
    /\ mu = [writer |-> FALSE, readers |-> {}]
    /\ loader = NoLoad
    /\ evals = <<>>
    /\ BatchIdle
    /\ LatchIdle

\* one Evaluate call on an initialized engine, from the sort to the return
EvaluateCall(sortedRules, ms) ==
    /\ initialized
    /\ ret' = Return("Evaluate", [sortedRules |-> sortedRules, ms |-> ms],
                     ruleLoop(sortedRules, ms, 1,
                              [Risks |-> <<>>, highestScore |-> 0,
                               highestScoreResult |-> ResultTypePass]),
                     NoError, FALSE)
    /\ UNCHANGED <<cache, detectors, fallbackMode, stream, wordVars, ruleVars,
                   batchVars, latchVars>>

NextEvaluate ==
    \E sortedRules \in SortedRules(ruleSet) :
        \E ms \in MatchVectors(sortedRules) : EvaluateCall(sortedRules, ms)

SpecEvaluate == InitEvaluate /\ [][NextEvaluate]_vars

EvaluateCalled == ret.op = "Evaluate"

\* the positions of the enabled rules that matched in the last Evaluate call
Matched ==
    {k \in DOMAIN ret.req.sortedRules :
        ret.req.sortedRules[k].Enabled /\ ret.req.ms[k].matched}

\* no matched rule of the last call maps to Reject
NoMatchedReject ==
    \A k \in Matched :
        getActionType(ret.req.sortedRules[k].Action) # ResultTypeReject

\* the highest score among the matched rules (Matched is not empty)
TopScore ==
    CHOOSE t \in {ret.req.sortedRules[k].Score : k \in Matched} :
        \A k \in Matched : ret.req.sortedRules[k].Score <= t

HarassmentTexts == {TextEmpty, TextClean, TextInsult, TextBully}
HarassmentContextLists ==
    SeqsBetween([Content : {TextClean}, UserID : Users], 0, 3)

InitHarassment ==
    /\ cache = <<>>
    /\ detectors = registeredDetectors(ConfigLocal, FALSE, FALSE)
    /\ fallbackMode = [d \in {"nlp", "semantic_nlp"} |-> FALSE]
    /\ ret = NoReturn
    /\ stream = StreamClosed
    /\ WordsIdle
    /\ RulesIdle
    /\ BatchIdle
    /\ LatchIdle

\* one call of HarassmentDetector.Detect
HarassmentDetectCall(ctx) ==
    /\ ret' = Return("HarassmentDetector.Detect", ctx, HarassmentDetect(ctx),
                     NoError, FALSE)
    /\ UNCHANGED <<cache, detectors, fallbackMode, stream, wordVars, ruleVars,
                   batchVars, latchVars>>

NextHarassment ==
    \E content \in HarassmentTexts, userID \in Users,
       items \in HarassmentContextLists :
        HarassmentDetectCall(CheckContext(content, userID, "post", items))

SpecHarassment == InitHarassment /\ [][NextHarassment]_vars

HarassmentCalled == ret.op = "HarassmentDetector.Detect"

\* what the harassment detector returns for a keyword
KeywordItem == NewRiskItem(RiskTypeHarassment, 70, "harassment keyword")

\* C21 as stated: for content with a harassment keyword and no context items
\* (the text "你真是个废物" being such a content, for its word "废物"),
\* HarassmentDetector.Detect returns exactly one item, of type Harassment
\* with score 70.
C21_InsultYieldsOneHarassmentItem ==
    (/\ HarassmentCalled
     /\ ret.req.ContextItems = <<>>
     /\ \/ "harassmentKeywords" \in ret.req.Content.pats
        \/ ret.req.Content = TextInsult) =>
        /\ ~ret.result.err
        /\ ret.result.risks = <<KeywordItem>>

\* the part of C21 that the detector meets: a content holding a word of
\* harassmentKeywords, without context items, yields the one keyword item,
\* and a content holding none of them yields no item
KeywordYieldsOneHarassmentItem ==
    (HarassmentCalled /\ ret.req.ContextItems = <<>>) =>
        /\ ~ret.result.err
        /\ ret.result.risks =
              IF "harassmentKeywords" \in ret.req.Content.pats
              THEN <<KeywordItem>> ELSE <<>>

\* Detect was called on "你真是个废物" without context items and returned no
\* item
C21_Witness ==
    /\ HarassmentCalled
    /\ ret.req.Content = TextInsult
    /\ ret.req.ContextItems = <<>>
    /\ ~ret.result.err
    /\ ret.result.risks = <<>>

(***************************************************************************)
(* SpecEngine: doContentCheck on a service with the local detectors, the   *)
(* value its call of Evaluate returns being an input.  Evaluate as written *)
(* returns no risk and no explicit result (evaluateRule never matches),    *)
(* which leaves the merge and the explicit-result return unexercised; here *)
(* the call returns one of the values its result type allows: an error, or *)
(* a verdict with up to two risk items, explicit or not.  ret.req holds    *)
(* the context, the detectors' values, the order in which they were        *)
(* visited and the engine's value.                                         *)
(***************************************************************************)
EngineTexts == {TextClean, TextPromo, TextWord}

\* the risk items of the engine: of the type of the spam detector's items
\* with a score below, equal to and above the first of them (50), and of a
\* type no detector reports
EngineItems ==
    {NewRiskItem(RiskTypeSpam, 45, "rule: spam, low"),
     NewRiskItem(RiskTypeSpam, 50, "rule: spam, equal"),
     NewRiskItem(RiskTypeSpam, 90, "rule: spam, high"),
     NewRiskItem(RiskTypeContextViolation, 50, "rule: context")}

\* the (Result, Score, Suggestion, HasExplicitResult) the engine returns
EngineVerdicts ==
    {[Result |-> ResultTypePass, Score |-> 0, Suggestion |-> "",
      HasExplicitResult |-> FALSE],
     [Result |-> ResultTypeWarning, Score |-> 60, Suggestion |-> "",
      HasExplicitResult |-> TRUE],
     [Result |-> ResultTypeReview, Score |-> 50, Suggestion |-> "",
      HasExplicitResult |-> TRUE],
     [Result |-> ResultTypeReject, Score |-> 80,
      Suggestion |-> "violates rule sensitive words",
      HasExplicitResult |-> TRUE]}

\* what s.ruleEngine.Evaluate returns to doContentCheck
EngineReturns ==
    {[err |-> TRUE]}
    \cup {[err |-> FALSE,
           res |-> [Result |-> v.Result, Score |-> v.Score, Risks |-> risks,
                    Suggestion |-> v.Suggestion,
                    HasExplicitResult |-> v.HasExplicitResult]] :
            v \in EngineVerdicts, risks \in SeqsBetween(EngineItems, 0, 2)}

InitEngine ==
    /\ cache = <<>>
    /\ detectors = registeredDetectors(ConfigLocal, FALSE, FALSE)
    /\ fallbackMode = [d \in {"nlp", "semantic_nlp"} |-> FALSE]
    /\ ret = NoReturn
    /\ stream = StreamClosed
    /\ WordsIdle
    /\ RulesIdle
    /\ BatchIdle
    /\ LatchIdle

\* one call of doContentCheck whose Evaluate call returned ev
DoContentCheckEngineCall(ctx, ev) ==
    /\ \E run \in DetectorRuns(ctx) :
          \E order \in DetectorOrders(run.outs) :
             /\ ret' = Return("doContentCheck",
                              [ctx |-> ctx, outs |-> run.outs, order |-> order,
                               ev |-> ev],
                              applyEngineResult(
                                  detectorLoop(order, 1, run.outs,
                                               [allRisks |-> <<>>,
                                                totalScore |-> 0,
                                                maxScore |-> 0]),
                                  ev),
                              NoError, FALSE)
             /\ fallbackMode' = run.fallbackMode
    /\ UNCHANGED <<cache, detectors, stream, wordVars, ruleVars, batchVars,
                   latchVars>>

NextEngine ==
    \E content \in EngineTexts, ev \in EngineReturns :
        DoContentCheckEngineCall(CheckContext(content, "u1", "post", <<>>), ev)

SpecEngine == InitEngine /\ [][NextEngine]_vars

\* the last doContentCheck call got a value from the engine without an error
EngineAnswered == PipelineCalled /\ ~ret.req.ev.err

\* the list the detector loop of the last call accumulated, and the items the
\* engine returned to it
Accumulated == AsReturned(ret.req.order, ret.req.outs)
EngineRisks == ret.req.ev.res.Risks

RECURSIVE Raised(_, _, _)
\* the item after every engine item of its type from position k on has been
\* compared with it: a strictly higher score replaces score and description
Raised(item, risks, k) ==
    IF k > Len(risks) THEN item
    ELSE Raised(IF risks[k].Type = item.Type /\ risks[k].Score > item.Score
                THEN [item EXCEPT !.Score = risks[k].Score,
                                  !.Description = risks[k].Description]
                ELSE item,
                risks, k + 1)

RECURSIVE Appended(_, _, _)
\* the engine items from position k on that open a type neither the
\* accumulated list nor an earlier engine item has, each raised by the later
\* engine items of its type
Appended(acc, risks, k) ==
    IF k > Len(risks) THEN <<>>
    ELSE (IF /\ \A i \in DOMAIN acc : acc[i].Type # risks[k].Type
             /\ \A j \in 1..(k - 1) : risks[j].Type # risks[k].Type
          THEN <<Raised(risks[k], risks, k + 1)>> ELSE <<>>)
         \o Appended(acc, risks, k + 1)

\* the merged list: every accumulated item in its place, the first item of
\* each type raised by the engine items of that type, then the appended ones
MergedList(acc, risks) ==
    [i \in DOMAIN acc |->
        IF \A j \in 1..(i - 1) : acc[j].Type # acc[i].Type
        THEN Raised(acc[i], risks, 1) ELSE acc[i]]
    \o Appended(acc, risks, 1)

\* C22: whenever Evaluate returns HasExplicitResult=true, doContentCheck
\* returns the engine's Result, Score and Suggestion with the whole merged
\* risk list, and no band is computed: the result carries no total score and
\* need not be the band of the highest item score.
C22_ExplicitResultBypassesBanding ==
    (EngineAnswered /\ ret.req.ev.res.HasExplicitResult) =>
        /\ ret.err = NoError
        /\ ret.result.Result = ret.req.ev.res.Result
        /\ ret.result.RiskScore = ret.req.ev.res.Score
        /\ ret.result.Suggestion = ret.req.ev.res.Suggestion
        /\ ret.result.Risks = MergedList(Accumulated, EngineRisks)
        /\ ret.result.Extra = {}

\* the engine returned Review with score 50 explicitly while the list holds
\* the sensitive-word item of score 80 and an appended engine item: the
\* verdict is Review, not the band of 80
C22_Witness ==
    /\ EngineAnswered
    /\ ret.req.ev.res.HasExplicitResult
    /\ ret.result.Result = ResultTypeReview
    /\ ret.result.RiskScore = 50
    /\ \E i \in DOMAIN ret.result.Risks : ret.result.Risks[i].Score = 80
    /\ Len(ret.result.Risks) > Len(Accumulated)
    /\ Band(80) # ret.result.Result

\* C23: in the merge step, an engine item whose type the accumulated list
\* already holds is not appended; the first item of that type takes the
\* higher of the two scores, and the engine item's description only with a
\* strictly higher score.  An engine item of a new type is appended.  The
\* other items stay as they are, and afterwards the running maximum (the
\* score of a banded verdict) is at least the score of every item.
C23_EngineItemsMergedByType ==
    EngineAnswered =>
        /\ ret.result.Risks = MergedList(Accumulated, EngineRisks)
        /\ \A k \in DOMAIN EngineRisks :
              LET r == EngineRisks[k]
                  at == FirstOfType(Accumulated, r.Type)
              IN  IF at # 0
                  THEN /\ Cardinality({i \in DOMAIN ret.result.Risks :
                                          ret.result.Risks[i].Type = r.Type})
                          = Cardinality({i \in DOMAIN Accumulated :
                                            Accumulated[i].Type = r.Type})
                       /\ ret.result.Risks[at].Score >= r.Score
                       /\ ret.result.Risks[at].Score >= Accumulated[at].Score
                       /\ r.Score <= Accumulated[at].Score =>
                             ret.result.Risks[at].Description # r.Description
                  ELSE \E i \in (Len(Accumulated) + 1)..Len(ret.result.Risks) :
                          /\ ret.result.Risks[i].Type = r.Type
                          /\ ret.result.Risks[i].Score >= r.Score
        /\ ~ret.req.ev.res.HasExplicitResult =>
              /\ Banded
              /\ \A i \in DOMAIN ret.result.Risks :
                    ret.result.Risks[i].Score <= ret.result.RiskScore
              /\ ret.result.RiskScore >= MaxScoreOf(ret.result.Risks)

\* the detectors found a phone number (50) and a price (40); the engine
\* returned a spam item of equal score and then one of score 90: nothing was
\* appended, the first spam item has score 90 and the description of the
\* second engine item, the price item is as it was
C23_Witness ==
    /\ EngineAnswered
    /\ ret.req.ctx.Content = TextPromo
    /\ Len(EngineRisks) = 2
    /\ EngineRisks[1].Score = 50
    /\ EngineRisks[2].Score = 90
    /\ Len(ret.result.Risks) = 2
    /\ ret.result.Risks[1].Score = 90
    /\ ret.result.Risks[1].Description = EngineRisks[2].Description
    /\ ret.result.Risks[2].Score = 40

(***************************************************************************)
(* SpecStore: the SensitiveWords store with its lock.  The background      *)
(* refresh goroutine calls Update, two other goroutines call the six other *)
(* methods.  Every statement that takes or releases sw.mu or touches       *)
(* sw.words or sw.filePaths is a step of its own.  Update evaluates        *)
(* sw.filePaths for its range loop without holding sw.mu; a read that      *)
(* overlaps AddFilePath's append is a data race and sees the list before   *)
(* or after the append.                                                    *)
(***************************************************************************)
Refresher == "refresh"
StoreCallers == {Refresher, "api", "reader"}

StoreWriteOps == {"AddWord", "RemoveWord", "SetWordList", "AddFilePath", "Update"}
StoreReadOps == {"ContainsWord", "GetAllWords"}

NoStoreCall ==
    [op |-> "none", pc |-> "idle", arg |-> "", paths |-> <<>>, k |-> 0,
     newWords |-> {}, out |-> {}]

StoreFiles ==
    [p \in Paths |-> IF p = "extra.txt" THEN File(<<" slur ", "badword">>)
                     ELSE File(<<"badword">>)]

InitStore ==
    /\ filePaths = <<"config/sensitive_words.txt">>
    /\ files = StoreFiles
    /\ words = loadAll(filePaths, files, 1, {})
    /\ upd = NoUpdate
    /\ swMu = [writer |-> "none", readers |-> {}]
    /\ swCalls = [c \in StoreCallers |-> NoStoreCall]
    /\ cache = <<>>
    /\ detectors = {"sensitive", "spam", "harassment", "semantic"}
    /\ fallbackMode = [d \in {"nlp", "semantic_nlp"} |-> FALSE]
    /\ ret = NoReturn
    /\ stream = StreamClosed
    /\ RulesIdle
    /\ BatchIdle
    /\ LatchIdle

StoreFrame == UNCHANGED <<upd, files, svcVars, ruleVars, batchVars, latchVars>>

\* goroutine c enters a method of the store; AddWord("") and
\* ContainsWord("") return before the lock, Update starts with its loop
StoreBegin(c, op, arg) ==
    /\ swCalls[c].pc = "idle"
    /\ op = "Update" <=> c = Refresher
    /\ op = "AddFilePath" => Len(filePaths) < MaxPaths
    /\ swCalls' = [swCalls EXCEPT ![c] =
                      [NoStoreCall EXCEPT
                          !.op = op, !.arg = arg,
                          !.pc = CASE op = "Update" -> "range"
                                   [] op = "AddWord" /\ arg = "" -> "idle"
                                   [] op = "ContainsWord" /\ arg = TextEmpty -> "idle"
                                   [] OTHER -> "lock"]]
    /\ UNCHANGED <<words, filePaths, swMu>>
    /\ StoreFrame

\* Update: "for _, path := range sw.filePaths", the range expression being
\* evaluated once, without the lock
StoreUpdateRange(c) ==
    /\ swCalls[c].pc = "range"
    /\ \E paths \in {filePaths}
                    \cup {Append(filePaths, swCalls[d].arg) :
                            d \in {e \in StoreCallers :
                                      /\ swCalls[e].op = "AddFilePath"
                                      /\ swCalls[e].pc = "access"}} :
          swCalls' = [swCalls EXCEPT ![c].pc = "load", ![c].paths = paths,
                                     ![c].k = 1, ![c].newWords = {}]
    /\ UNCHANGED <<words, filePaths, swMu>>
    /\ StoreFrame

\* Update: one file of the loop, or the "if len(newWords) > 0" after it
StoreUpdateLoad(c) ==
    /\ swCalls[c].pc = "load"
    /\ swCalls' =
          IF swCalls[c].k <= Len(swCalls[c].paths)
          THEN [swCalls EXCEPT
                   ![c].k = @ + 1,
                   ![c].newWords =
                       loadFromFile(files[swCalls[c].paths[swCalls[c].k]], @)]
          ELSE IF swCalls[c].newWords # {}
          THEN [swCalls EXCEPT ![c].pc = "lock"]
          ELSE [swCalls EXCEPT ![c].pc = "idle"]
    /\ UNCHANGED <<words, filePaths, swMu>>
    /\ StoreFrame

\* sw.mu.Lock() of the writing methods, sw.mu.RLock() of the reading ones
StoreLock(c) ==
    /\ swCalls[c].pc = "lock"
    /\ swMu.writer = "none"
    /\ IF swCalls[c].op \in StoreWriteOps
       THEN /\ swMu.readers = {}
            /\ swMu' = [swMu EXCEPT !.writer = c]
       ELSE swMu' = [swMu EXCEPT !.readers = @ \cup {c}]
    /\ swCalls' = [swCalls EXCEPT ![c].pc = "access"]
    /\ UNCHANGED <<words, filePaths>>
    /\ StoreFrame

\* a faulty variant of StoreAccess: Update adds the candidate to the set
StoreAccessMerging(c) ==
    /\ swCalls[c].pc = "access"
    /\ LET call == swCalls[c]
       IN  /\ words' =
                 CASE call.op = "AddWord" -> words \cup {call.arg}
                   [] call.op = "RemoveWord" -> words \ {call.arg}
                   [] call.op = "SetWordList" ->
                         {call.arg[i] : i \in DOMAIN call.arg} \ {""}
                   [] call.op = "Update" -> words \cup call.newWords
                   [] OTHER -> words
           /\ filePaths' = IF call.op = "AddFilePath"
                           THEN Append(filePaths, call.arg) ELSE filePaths
           /\ \E out \in CASE call.op = "ContainsWord" ->
                                ContainsWord(words, call.arg)
                           [] call.op = "GetAllWords" -> {words}
                           [] OTHER -> {{}} :
                 swCalls' = [swCalls EXCEPT ![c].pc = "unlock", ![c].out = out]
    /\ UNCHANGED swMu
    /\ StoreFrame

\* the statements of the method between taking and releasing the lock
StoreAccess(c) ==
    /\ swCalls[c].pc = "access"
    /\ LET call == swCalls[c]
       IN  /\ words' =
                 CASE call.op = "AddWord" -> words \cup {call.arg}
                   [] call.op = "RemoveWord" -> words \ {call.arg}
                   [] call.op = "SetWordList" ->
                         {call.arg[i] : i \in DOMAIN call.arg} \ {""}
                   [] call.op = "Update" -> call.newWords
                   [] OTHER -> words
           /\ filePaths' = IF call.op = "AddFilePath"
                           THEN Append(filePaths, call.arg) ELSE filePaths
           /\ \E out \in CASE call.op = "ContainsWord" ->
                                ContainsWord(words, call.arg)
                           [] call.op = "GetAllWords" -> {words}
                           [] OTHER -> {{}} :
                 swCalls' = [swCalls EXCEPT ![c].pc = "unlock", ![c].out = out]
    /\ UNCHANGED swMu
    /\ StoreFrame

\* sw.mu.Unlock() or sw.mu.RUnlock(), and the return
StoreUnlock(c) ==
    /\ swCalls[c].pc = "unlock"
    /\ swMu' = IF swCalls[c].op \in StoreWriteOps
               THEN [swMu EXCEPT !.writer = "none"]
               ELSE [swMu EXCEPT !.readers = @ \ {c}]
    /\ swCalls' = [swCalls EXCEPT ![c].pc = "idle"]
    /\ UNCHANGED <<words, filePaths>>
    /\ StoreFrame

NextStore ==
    \/ \E c \in StoreCallers : StoreBegin(c, "Update", "")
    \/ \E c \in StoreCallers, word \in {"slur", ""} : StoreBegin(c, "AddWord", word)
    \/ \E c \in StoreCallers : StoreBegin(c, "RemoveWord", "badword")
    \/ \E c \in StoreCallers : StoreBegin(c, "SetWordList", <<"slur", "">>)
    \/ \E c \in StoreCallers : StoreBegin(c, "AddFilePath", "extra.txt")
    \/ \E c \in StoreCallers, content \in {TextWord, TextEmpty} :
          StoreBegin(c, "ContainsWord", content)
    \/ \E c \in StoreCallers : StoreBegin(c, "GetAllWords", "")
    \/ \E c \in StoreCallers : StoreUpdateRange(c)
    \/ \E c \in StoreCallers : StoreUpdateLoad(c)
    \/ \E c \in StoreCallers : StoreLock(c)
    \/ \E c \in StoreCallers : StoreAccess(c)
    \/ \E c \in StoreCallers : StoreUnlock(c)

SpecStore == InitStore /\ [][NextStore]_vars

\* the shared field goroutine c is about to read or write, "" if none
Touches(c) ==
    CASE swCalls[c].pc = "range" -> "filePaths"
      [] swCalls[c].pc = "access" /\ swCalls[c].op = "AddFilePath" -> "filePaths"
      [] swCalls[c].pc = "access" -> "words"
      [] OTHER -> ""

\* goroutine c is about to write a shared field
Writes(c) == swCalls[c].pc = "access" /\ swCalls[c].op \in StoreWriteOps

\* goroutine c holds sw.mu in the mode of its access
HoldsLock(c) ==
    IF Writes(c) THEN swMu.writer = c
    ELSE swMu.writer = c \/ c \in swMu.readers

\* two goroutines are at accesses of one field, one of them a write
StoreRace ==
    \E c, d \in StoreCallers :
        /\ c # d
        /\ Touches(c) # ""
        /\ Touches(c) = Touches(d)
        /\ Writes(c)

\* C24 as stated: every access to the word set and to the file-path list
\* made by AddWord, RemoveWord, SetWordList, AddFilePath, Update,
\* GetAllWords and ContainsWord happens while the goroutine holds sw.mu
\* (exclusively for a write, shared for a read), so no goroutine reads that
\* state while another writes it.
C24_EveryAccessHoldsLock ==
    /\ \A c \in StoreCallers : Touches(c) # "" => HoldsLock(c)
    /\ ~StoreRace

\* what the lock does guarantee: sw.words is read and written under sw.mu
\* only, and sw.filePaths is written under it
WordsAccessesHoldLock ==
    /\ \A c \in StoreCallers :
          (Touches(c) = "words" \/ Writes(c)) => HoldsLock(c)
    /\ \A c, d \in StoreCallers :
          (c # d /\ Touches(c) = "words" /\ Touches(d) = "words") =>
              (~Writes(c) /\ ~Writes(d))
    /\ swMu.writer # "none" => swMu.readers = {}

\* the refresh goroutine is about to read sw.filePaths for its loop, holding
\* no lock, while another goroutine, inside AddFilePath and holding the
\* write lock, is about to append to it
C24_Witness ==
    /\ swCalls[Refresher].op = "Update"
    /\ swCalls[Refresher].pc = "range"
    /\ swMu.writer # Refresher
    /\ Refresher \notin swMu.readers
    /\ \E d \in StoreCallers :
          /\ swCalls[d].op = "AddFilePath"
          /\ swCalls[d].pc = "access"
          /\ swMu.writer = d

(***************************************************************************)
(* SpecVerdict: doContentCheck on services whose engine loaded any of the  *)
(* rule files, called with and without context items.  The detectors are   *)
(* the local ones and the AI detector.                                     *)
(***************************************************************************)
InitVerdict ==
    /\ cache = <<>>
    /\ detectors = registeredDetectors(ConfigAI, FALSE, FALSE)
    /\ fallbackMode = [d \in {"nlp", "semantic_nlp"} |-> FALSE]
    /\ ret = NoReturn
    /\ stream = StreamClosed
    /\ WordsIdle
    /\ ruleSet \in EvaluateRuleSets
    /\ initialized = TRUE
    /\ ruleFile = RuleFileOf(ruleSet)
    /\ mu = [writer |-> FALSE, readers |-> {}]
    /\ loader = NoLoad
    /\ evals = <<>>
    /\ BatchIdle
    /\ LatchIdle

NextVerdict ==
    \E content \in PipelineTexts, items \in ContextLists :
        DoContentCheckCall(CheckContext(content, "u1", "post", items))

SpecVerdict == InitVerdict /\ [][NextVerdict]_vars

\* what Evaluate returns when no rule matched
NoRuleMatched ==
    [Result |-> ResultTypePass, Score |-> 0, Risks |-> <<>>, Suggestion |-> "",
     HasExplicitResult |-> FALSE]

\* C25: whatever the rule set, the context and the detectors' risks, Evaluate
\* on the initialized engine finds no matching rule and returns Result=Pass,
\* Score=0, no risk and HasExplicitResult=false; so the verdict of
\* doContentCheck is the band of the highest score among the detectors'
\* items, with the detectors' items as its risk list.
C25_VerdictComesFromBanding ==
    PipelineCalled =>
        /\ \A sortedRules \in SortedRules(ruleSet) :
              LET ev == Evaluate([ruleSet |-> ruleSet, initialized |-> initialized],
                                 sortedRules, ret.req.ctx,
                                 AsReturned(ret.req.order, ret.req.outs))
              IN  ~ev.err /\ ev.res = NoRuleMatched
        /\ Banded
        /\ ret.result.Risks = AsReturned(ret.req.order, ret.req.outs)
        /\ ret.result.RiskScore = MaxScoreOf(ret.result.Risks)
        /\ ret.result.Result = Band(MaxScoreOf(ret.result.Risks))

\* under rules.json, whose enabled sensitive-word rule blocks and whose
\* context rule reviews, a call with context items whose only item is an AI
\* item of score 35 returned Warning
C25_Witness ==
    /\ PipelineCalled
    /\ ruleSet = RulesDefault
    /\ ret.req.ctx.ContextItems # <<>>
    /\ Len(ret.result.Risks) = 1
    /\ ret.result.RiskScore = 35
    /\ ret.result.Result = ResultTypeWarning

(***************************************************************************)
(* Claims about the only failure of a check (Spec).                        *)
(***************************************************************************)
\* the processed items of the last batch request that have empty content
EmptyItems == {i \in 1..Processed : ret.req[i].Content.len = 0}

\* C26: doContentCheck never returns an error, so CheckContent fails exactly
\* when its content is empty (with ErrEmptyContent and no verdict); and a
\* returned batch holds the default Pass placeholder exactly at the processed
\* items with empty content, its error being non-nil exactly when there is
\* such an item.
C26_OnlyEmptyContentFails ==
    /\ [][(ret' # ret /\ ret'.op = "CheckContent") =>
             /\ ret'.err # NoError <=> ret'.req.Content.len = 0
             /\ ret'.err # NoError =>
                   (ret'.err = ErrEmptyContent /\ ret'.result = NilResult)]_vars
    /\ [](BatchReturned =>
             /\ \A i \in 1..Processed :
                   /\ taskRes[i].err # NoError <=> i \in EmptyItems
                   /\ ret.result.Results[i] = placeholder(ret.result.BatchID, i)
                         <=> i \in EmptyItems
                   /\ HasError(ret.result.Results[i].Extra) <=> i \in EmptyItems
             /\ ret.err # NoError <=> EmptyItems # {})

\* a batch whose first item has empty content and whose second item has
\* not returned with an error, the placeholder in the first slot and a
\* verdict without error mark in the second
C26_Witness ==
    /\ BatchReturned
    /\ EmptyItems = {1}
    /\ Processed = 2
    /\ ret.err = ErrEmptyContent
    /\ ret.result.Results[1] = placeholder(ret.result.BatchID, 1)
    /\ ~HasError(ret.result.Results[2].Extra)

(***************************************************************************)
(* SpecStale: CheckContent calls on a service whose word set changes       *)
(* through AddWord, SetWordList and Update while verdicts are cached and   *)
(* expire.  The store starts with the word "slur" loaded from its file;    *)
(* the text "get badword" holds no sensitive word until "badword" is       *)
(* added.  The detectors are the local ones.                               *)
(***************************************************************************)
StaleRequests ==
    [Content : {TextWord, TextClean}, UserID : {"u1"}, Scene : {"post"}]
StaleFiles == {File(<<" slur ">>), File(<<" slur ", " # indented comment", "badword">>)}

InitStale ==
    /\ filePaths = <<"config/sensitive_words.txt">>
    /\ files = [p \in Paths |-> File(<<" slur ">>)]
    /\ words = loadAll(filePaths, files, 1, {})
    /\ upd = NoUpdate
    /\ swMu = [writer |-> "none", readers |-> {}]
    /\ swCalls = <<>>
    /\ cache = <<>>
    /\ detectors = registeredDetectors(ConfigLocal, FALSE, FALSE)
    /\ fallbackMode = [d \in {"nlp", "semantic_nlp"} |-> FALSE]
    /\ ret = NoReturn
    /\ stream = StreamClosed
    /\ RulesIdle
    /\ BatchIdle
    /\ LatchIdle

NextStale ==
    \/ \E req \in StaleRequests : CheckContent(req)
    \/ \E key \in DOMAIN cache : CacheExpire(key)
    \/ AddWord("badword")
    \/ SetWordList(<<"badword", "slur">>)
    \/ \E content \in StaleFiles :
          FileChange("config/sensitive_words.txt", content)
    \/ UpdateStart
    \/ UpdateLoad
    \/ UpdateSwap

SpecStale == InitStale /\ [][NextStale]_vars

\* the step is the return of a CheckContent call that succeeded
CheckContentReturns ==
    ret' # ret /\ ret'.op = "CheckContent" /\ ret'.err = NoError

\* the result holds an item of the sensitive-word detector
HasWordItem(result) ==
    \E i \in DOMAIN result.Risks : result.Risks[i].Type = RiskTypeSensitiveWord

\* C27: a cache hit returns the stored verdict as it is, whatever the word
\* set has become: no detector and no rule is run for it.  A change of the
\* word set (AddWord, SetWordList, Update) leaves the cache as it is, so the
\* entry of a content that now holds a sensitive word stays until it
\* expires, and the calls that find it return the old non-reject verdict;
\* a call that does not find it evaluates against the current word set.
C27_HitIgnoresWordSetChange ==
    /\ [][words' # words => cache' = cache]_vars
    /\ [][CheckContentReturns =>
             IF ret'.hit
             THEN /\ LastKey' \in DOMAIN cache
                  /\ ret'.result.Result # ResultTypeReject
                  /\ ret'.result.Result = Unmarshal(cache[LastKey']).result.Result
                  /\ ret'.result.Risks = Unmarshal(cache[LastKey']).result.Risks
                  /\ ret'.result.RiskScore =
                        Unmarshal(cache[LastKey']).result.RiskScore
                  /\ cache' = cache
             ELSE HasWordItem(ret'.result)
                     <=> words \cap ret'.req.Content.sub # {}]_vars

\* "badword" is in the word set and CheckContent("get badword") was answered
\* from the cache with the Pass verdict stored before the word was added
C27_Witness ==
    /\ ret.op = "CheckContent"
    /\ ret.hit
    /\ ret.req.Content = TextWord
    /\ "badword" \in words
    /\ ret.result.Result = ResultTypePass
    /\ ~HasWordItem(ret.result)
    /\ LastKey \in DOMAIN cache

(***************************************************************************)
(* SpecConstruct: NewContentCheckService under every setting of the three  *)
(* switches and every outcome of the two connectivity probes, followed by  *)
(* doContentCheck calls.  fallbackMode holds the flag of each detector     *)
(* object the constructors returned, registered or not; a switched-off     *)
(* detector is not constructed and its flag stays false.                   *)
(***************************************************************************)
ConstructConfigs ==
    [NLPEnabled : BOOLEAN, UseMLModel : BOOLEAN, UseLocalLLM : BOOLEAN]
ConstructTexts == {TextClean, TextInsult}

InitConstruct ==
    /\ \E cfg \in ConstructConfigs, nlpProbeOK \in BOOLEAN, llmProbeOK \in BOOLEAN :
          LET nlp == NewNLPDetector(nlpProbeOK)
              llm == NewSemanticNLPDetector(llmProbeOK)
          IN  /\ detectors = registeredDetectors(cfg, nlp.probeOK, llm.probeOK)
              /\ fallbackMode =
                    [d \in {"nlp", "semantic_nlp"} |->
                        IF d = "nlp" THEN cfg.NLPEnabled /\ nlp.fallbackMode
                        ELSE cfg.UseLocalLLM /\ llm.fallbackMode]
    /\ cache = <<>>
    /\ ret = NoReturn
    /\ stream = StreamClosed
    /\ WordsIdle
    /\ RulesIdle
    /\ BatchIdle
    /\ LatchIdle

\* one call of doContentCheck, the answers to the two detectors' live calls
\* being given (a detector that makes no call gets none)
DoContentCheckLiveCall(ctx, nlpAnswer, llmAnswer) ==
    /\ nlpAnswer \in LiveAnswers("nlp")
    /\ llmAnswer \in LiveAnswers("semantic_nlp")
    /\ \E run \in DetectorRunsOn(ctx, {AINoRisk, AITransportError},
                                 {nlpAnswer}, {llmAnswer}) :
          \E order \in DetectorOrders(run.outs),
             sortedRules \in SortedRules(ruleSet) :
             /\ ret' = Return("doContentCheck",
                              [ctx |-> ctx, outs |-> run.outs, order |-> order,
                               live |-> [d \in {"nlp", "semantic_nlp"} |->
                                           d \in detectors /\ ~fallbackMode[d]],
                               answer |-> [d \in {"nlp", "semantic_nlp"} |->
                                             IF d = "nlp" THEN nlpAnswer
                                             ELSE llmAnswer]],
                              doContentCheck(ctx, order, run.outs,
                                             [ruleSet |-> ruleSet,
                                              initialized |-> initialized],
                                             sortedRules),
                              NoError, FALSE)
             /\ fallbackMode' = run.fallbackMode
    /\ UNCHANGED <<cache, detectors, stream, wordVars, ruleVars, batchVars,
                   latchVars>>

NextConstruct ==
    \E content \in ConstructTexts, nlpAnswer, llmAnswer \in AnalysisOutcomes :
        DoContentCheckLiveCall(CheckContext(content, "u1", "post", <<>>),
                               nlpAnswer, llmAnswer)

SpecConstruct == InitConstruct /\ [][NextConstruct]_vars

\* C28: after NewContentCheckService no registered cloud-NLP or local-LLM
\* detector is in fallback mode, and a detector returned in fallback mode
\* (its probe failed, so its constructor returned an error) is not
\* registered; the detector set never changes afterwards; and the flag of a
\* detector rises only in a doContentCheck call in which that detector is
\* registered, made its live call and the call failed.
C28_RegisteredStartLive ==
    /\ \A d \in {"nlp", "semantic_nlp"} : ~(d \in detectors /\ fallbackMode[d])
    /\ [][detectors' = detectors]_vars
    /\ [][\A d \in {"nlp", "semantic_nlp"} :
             (fallbackMode'[d] /\ ~fallbackMode[d]) =>
                 /\ d \in detectors
                 /\ ret'.op = "doContentCheck"
                 /\ ret'.req.live[d]
                 /\ ~ret'.req.answer[d].ok
                 /\ ret'.req.outs[d] = fallbackDetect(ret'.req.ctx)]_vars

\* the cloud-NLP detector started in fallback mode and is not registered;
\* the local-LLM detector was registered live and a failed live call of the
\* last doContentCheck call has switched it into fallback mode
C28_Witness ==
    /\ fallbackMode["nlp"]
    /\ "nlp" \notin detectors
    /\ "semantic_nlp" \in detectors
    /\ fallbackMode["semantic_nlp"]
    /\ ret.op = "doContentCheck"
    /\ ret.req.live["semantic_nlp"]
    /\ ~ret.req.answer["semantic_nlp"].ok

(***************************************************************************)
(* C29 is checked on SpecStore, where the files do not change: the words   *)
(* an Update call read are those the files of its path list hold.          *)
(***************************************************************************)
\* the words a file holds: its trimmed lines, blank and comment lines apart
WordsIn(file) ==
    IF ~file.ok THEN {}
    ELSE {w \in {TrimSpace(file.lines[i]) : i \in DOMAIN file.lines} :
             w # "" /\ ~HasPrefixHash(w)}

\* the words held by the files of a path list
FileWords(paths) == UNION {WordsIn(files[paths[i]]) : i \in DOMAIN paths}

\* the step in which goroutine c, in Update, assigns sw.words
UpdateSwaps(c) ==
    /\ swCalls[c].op = "Update"
    /\ swCalls[c].pc = "access"
    /\ swCalls'[c].pc = "unlock"

\* C29: an Update call that built a non-empty candidate set replaces the
\* word set by exactly the words of the files it read: whatever AddWord or
\* SetWordList put into the set before the swap, also while Update was
\* reading, is in the set afterwards only if the files hold it.  An Update
\* call reaches the swap only with a non-empty candidate.
C29_UpdateReplacesWithFileWords ==
    [][\A c \in StoreCallers :
          UpdateSwaps(c) =>
              /\ swCalls[c].newWords # {}
              /\ words' = FileWords(swCalls[c].paths)
              /\ \A w \in words :
                    w \in words' <=> w \in FileWords(swCalls[c].paths)]_vars

\* the refresh goroutine has just swapped in the words of the one configured
\* file; "slur", which a finished AddWord call of another goroutine had put
\* into the set, is not in it
C29_Witness ==
    /\ swCalls[Refresher].op = "Update"
    /\ swCalls[Refresher].pc = "unlock"
    /\ swCalls[Refresher].paths = <<"config/sensitive_words.txt">>
    /\ swCalls["api"].op = "AddWord"
    /\ swCalls["api"].arg = "slur"
    /\ swCalls["api"].pc = "idle"
    /\ "slur" \notin words
    /\ words = {"badword"}

(***************************************************************************)
(* SpecContext: CheckContent and CheckContentWithContext calls on one      *)
(* service, for the same content texts, while cache entries expire and are *)
(* damaged.  The service is started as in Spec.                            *)
(***************************************************************************)
ContextRequests ==
    [Content : {TextEmpty, TextClean, TextPromo, TextWord}, UserID : {"u1"},
     Scene : {"post"}]

NextContext ==
    \/ \E req \in ContextRequests : CheckContent(req)
    \/ \E req \in ContextRequests, items \in ContextLists :
          CheckContentWithContext(req, items)
    \/ \E key \in DOMAIN cache : CacheExpire(key)
    \/ \E key \in DOMAIN cache : CacheCorrupt(key)

SpecContext == Init /\ [][NextContext]_vars

\* the step is the return of a CheckContentWithContext call that succeeded
CheckContentWithContextReturns ==
    ret' # ret /\ ret'.op = "CheckContentWithContext" /\ ret'.err = NoError

\* the verdict is one that doContentCheck can compute for the call's context
\* in the state before the step
FreshlyComputed ==
    \E run \in PipelineRuns(ret'.req) :
        /\ ret'.result.Result = run.result.Result
        /\ ret'.result.Risks = run.result.Risks
        /\ ret'.result.RiskScore = run.result.RiskScore

\* C30: CheckContentWithContext leaves the result cache as it is and returns
\* a verdict computed by the detectors and the rule engine for its content
\* and context items, under a "req_ctx" request id, whether or not the cache
\* holds a verdict for the same content text.
C30_ContextCallBypassesCache ==
    [][CheckContentWithContextReturns =>
          /\ cache' = cache
          /\ ~ret'.hit
          /\ ret'.result.RequestID[1] = "req_ctx"
          /\ FreshlyComputed]_vars

\* the last call was a CheckContentWithContext call for a content text whose
\* verdict is in the cache, and it returned other risk items than the cached
\* verdict holds
C30_Witness ==
    /\ ret.op = "CheckContentWithContext"
    /\ ret.err = NoError
    /\ LastKey \in DOMAIN cache
    /\ Unmarshal(cache[LastKey]).ok
    /\ Unmarshal(cache[LastKey]).result.Risks # ret.result.Risks

=============================================================================
